---- MODULE Spec2Model ----
(***************************************************************************)
(* Execution nodes of the pipeline engine (libvast/src/execution_node.cpp).*)
(*                                                                         *)
(* The pipeline is  source | transform | sink : node 0 runs a source       *)
(* operator, node 1 a transformation, node 2 a sink.  Every node is an      *)
(* actor: a handler runs to completion, nodes interact only by messages.    *)
(* chan_down[i] carries the messages node i sends to node i+1, chan_up[i]   *)
(* those node i+1 sends to node i; both are FIFO (messages between one      *)
(* pair of actors are not reordered).                                       *)
(*                                                                         *)
(* An element (table_slice or chunk_ptr) is the sequence of the rows/bytes  *)
(* it holds; size(x) is its length and the empty element is <<>>.           *)
(***************************************************************************)
EXTENDS Integers, Sequences, FiniteSets, TLC

\* ---- bounds of the model ------------------------------------------------
\* defaults<Element>: the buffer sizes of execution_node.cpp:51-74, scaled
\* down (the source has 64 Ki / 8 Ki / 254 Ki rows and 1 Mi / 128 Ki / 4 Mi
\* bytes); the code only compares and subtracts them.
max_batch_size == 2
min_batch_size == 1
max_buffered == 2
\* rows the source operator produces before it ends
NumRows == 3
\* largest element the source operator yields
MaxElem == 2
\* longest vector of chunks that split is applied to
MaxChunks == 3
\* the counters of sent diagnostics stop counting here
MaxDiags == 3

\* ---- program constants --------------------------------------------------
max_advances_per_run == 1
\* defaults<>::max_batch_timeout, in milliseconds
max_batch_timeout == 250

Nodes == 0 .. 2
IsSource(n) == n = 0
IsSink(n) == n = 2
HasInput(n) == ~IsSource(n)
HasOutput(n) == ~IsSink(n)
Links == 0 .. 1

Min(a, b) == IF a <= b THEN a ELSE b

\* ---- batch primitives ---------------------------------------------------
size(x) == Len(x)

RECURSIVE SumSizes(_)
SumSizes(xs) == IF xs = <<>> THEN 0 ELSE size(Head(xs)) + SumSizes(Tail(xs))

RECURSIVE Flatten(_)
Flatten(xs) == IF xs = <<>> THEN <<>> ELSE Head(xs) \o Flatten(Tail(xs))

\* a variant whose remainder starts one row early
split_overlap(chunk, partition_point) ==
  IF partition_point = 0 THEN << <<>>, chunk >>
  ELSE IF partition_point >= size(chunk) THEN << chunk, <<>> >>
  ELSE << SubSeq(chunk, 1, partition_point),
          SubSeq(chunk, partition_point, size(chunk)) >>

\* split(chunk, partition_point): (prefix, remainder) of one element
split(chunk, partition_point) ==
  IF partition_point = 0 THEN << <<>>, chunk >>
  ELSE IF partition_point >= size(chunk) THEN << chunk, <<>> >>
  ELSE << SubSeq(chunk, 1, partition_point),
          SubSeq(chunk, partition_point + 1, size(chunk)) >>

\* split(chunks, partition_point): the loop over the vector, `done` being the
\* elements already passed (chunks.begin() .. it)
RECURSIVE split_loop(_, _, _)
split_loop(done, rest, partition_point) ==
  IF rest = <<>> THEN << done, <<>> >>
  ELSE IF partition_point = size(Head(rest))
    THEN << Append(done, Head(rest)), Tail(rest) >>
  ELSE IF partition_point < size(Head(rest))
    THEN LET p == split(Head(rest), partition_point)
         IN << Append(done, p[1]), <<p[2]>> \o Tail(rest) >>
  ELSE split_loop(Append(done, Head(rest)), Tail(rest),
                  partition_point - size(Head(rest)))

\* a variant that splits the first chunk only
split_vec_first(chunks, partition_point) ==
  IF chunks = <<>> THEN << <<>>, <<>> >>
  ELSE LET p == split(Head(chunks), partition_point)
       IN << <<p[1]>>, <<p[2]>> \o Tail(chunks) >>

split_vec(chunks, partition_point) == split_loop(<<>>, chunks, partition_point)

\* no application of split is observed
NoCall == [form |-> "none", chunks |-> <<>>, partition_point |-> 0,
           state |-> "none", out |-> <<>>]

\* ---- messages -----------------------------------------------------------
Msg(t, b, e) ==
  [type |-> t, batch_size |-> b, batch_timeout |-> 0, elems |-> e]
\* the pull request: (atom::pull, sink, batch_size, batch_timeout)
Pull(batch_size, batch_timeout) ==
  [Msg("pull", batch_size, <<>>) EXCEPT !.batch_timeout = batch_timeout]
IsRequest(m) == m.type \in {"pull", "push"}

\* outbound_state_mixin::demand; absent == std::nullopt
NoDemand == [present |-> FALSE, batch_size |-> 0, expired |-> FALSE,
             ongoing |-> FALSE, sink |-> "none"]

NoError == [code |-> "none", msg |-> "none"]

\* node[n]      exec_node_state of node n plus the state of its actor, of its
\*              operator instance and of the coroutine of its input adapter
\* chan_up[i]   messages in flight from node i+1 to node i
\* chan_down[i] messages in flight from node i to node i+1
\* boot         the start request of the pipeline executor and its answer
\* ops          what the operators of this pipeline may do when resumed
\* injected     the messages a foreign actor has sent so far
\* call         an application of split: its arguments and its result
VARIABLES node, chan_up, chan_down, boot, ops, injected, call

vars == <<node, chan_up, chan_down, boot, ops, injected, call>>

\* exec_node_actor previous = {}
NoHandle == 0 - 1

\* exec_node_state after exec_node() has constructed the actor
InitNode ==
  [exit |-> "alive",            \* "alive", or the exit reason after quit
   exit_reason |-> NoError,
   instance |-> FALSE,          \* instance.has_value()
   it_end |-> FALSE,            \* instance->it == instance->gen.end()
   cur |-> <<>>,                \* *instance->it
   previous |-> FALSE,           \* this->previous is not null
   handle |-> NoHandle,         \* the node start() made this->previous name
   starts |-> 0,                \* start requests received (up to 2)
   signaled_demand |-> FALSE,
   inbound_buffer |-> <<>>,
   inbound_buffer_size |-> 0,
   outbound_buffer |-> <<>>,
   outbound_buffer_size |-> 0,
   current_demand |-> NoDemand,
   reject_demand |-> FALSE,
   stalled |-> FALSE,
   run_scheduled |-> FALSE,
   abort |-> NoError,
   has_seen_error |-> FALSE,    \* exec_node_diagnostic_handler
   awaiting |-> FALSE,          \* suspended in .await(...) of a push
   push_capped |-> 0,           \* capped_demand captured by handle_result
   foreign_reply |-> "none",    \* the last answer sent to a foreign actor
   foreign_push |-> FALSE,      \* a push to a foreign sink is unanswered
   delayed |-> 0,               \* weak_run_delayed replies not yet fired
   adapter |-> "start",         \* where the input adapter is suspended
   src_next |-> 1,              \* next row of the source operator
   advances |-> 0,              \* most operator steps taken in one run()
   assert_failed |-> FALSE,     \* a VAST_ASSERT did not hold
   hung |-> FALSE,              \* a handler of the node never returns
   diags |-> 0,                 \* error diagnostics sent (up to MaxDiags)
   aborts |-> 0,                \* ctrl.abort calls with a non-silent error
   warns |-> 0,                 \* warning diagnostics sent (up to MaxDiags)
   hist_yielded |-> <<>>,       \* rows appended to outbound_buffer so far
   hist_read |-> <<>>]          \* rows the input adapter handed out so far

\* A handler runs on a context: the node state and the messages it sends
\* upstream and downstream; got/got_end/ret are values handed back to the
\* caller inside the handler.
Ctx(s) == [s |-> s, up |-> <<>>, down |-> <<>>, got |-> <<>>,
           got_end |-> FALSE, ret |-> FALSE, start_reply |-> "none",
           error |-> NoError, valid |-> TRUE, advanced |-> 0]

\* ---- control plane and diagnostics --------------------------------------
\* exec_node_diagnostic_handler::emit followed by the latch of
\* exec_node_control_plane::abort and warn.  An error diagnostic is sent to the
\* receiver; the first one makes emit call ctrl->abort(ec::silent), which
\* sets the latch, so that the outer abort finds it set.
\* a variant that sends an error diagnostic only if none was sent before
diagnostic_emit_once(c, severity) ==
  IF severity = "error"
  THEN IF ~c.s.has_seen_error
       THEN [c EXCEPT !.s.diags = Min(@ + 1, MaxDiags),
                      !.s.has_seen_error = TRUE,
                      !.s.abort = IF c.s.abort = NoError
                                  THEN [code |-> "silent", msg |-> "silent"]
                                  ELSE @]
       ELSE c
  ELSE [c EXCEPT !.s.warns = Min(@ + 1, MaxDiags)]

diagnostic_emit(c, severity) ==
  IF severity = "error"
  THEN LET c1 == [c EXCEPT !.s.diags = Min(@ + 1, MaxDiags)]
       IN IF ~c1.s.has_seen_error
          THEN [c1 EXCEPT !.s.has_seen_error = TRUE,
                          !.s.abort = IF c1.s.abort = NoError
                                      THEN [code |-> "silent", msg |-> "silent"]
                                      ELSE @]
          ELSE c1
  ELSE [c EXCEPT !.s.warns = Min(@ + 1, MaxDiags)]

\* a variant that latches the error it was given, before it reports it
ctrl_abort_keep_error(c, error) ==
  LET c1 == IF c.s.abort = NoError
            THEN [c EXCEPT !.s.abort = [code |-> error, msg |-> error]]
            ELSE c
  IN IF error # "silent"
     THEN diagnostic_emit([c1 EXCEPT !.s.aborts = Min(@ + 1, MaxDiags)],
                          "error")
     ELSE c1

\* a variant that replaces the latch at every call
ctrl_abort_overwrite(c, error) ==
  LET c1 == IF error # "silent"
            THEN diagnostic_emit([c EXCEPT !.s.aborts = Min(@ + 1, MaxDiags)],
                                 "error")
            ELSE c
  IN [c1 EXCEPT !.s.abort = [code |-> "silent", msg |-> error]]

ctrl_abort(c, error) ==
  LET c1 == IF error # "silent"
            THEN diagnostic_emit([c EXCEPT !.s.aborts = Min(@ + 1, MaxDiags)],
                                 "error")
            ELSE c
  IN IF c1.s.abort = NoError
     THEN [c1 EXCEPT !.s.abort = [code |-> "silent", msg |-> error]]
     ELSE c1

ctrl_warn(c, error) ==
  IF error # "silent" THEN diagnostic_emit(c, "warning") ELSE c

\* ---- scheduling ---------------------------------------------------------
schedule_run(c) ==
  IF ~c.s.instance \/ c.s.run_scheduled THEN c
  ELSE [c EXCEPT !.s.run_scheduled = TRUE]

\* self->quit(reason): the actor terminates after the running handler
quit(c, reason) ==
  IF c.s.exit # "alive" THEN c
  ELSE [c EXCEPT !.s.exit = IF reason = NoError THEN "normal" ELSE "error",
                 !.s.exit_reason = reason]

\* a variant that pulls again while a pull is in flight
request_more_input_nocheck(c) ==
  LET batch_size == Min(max_buffered - c.s.inbound_buffer_size, max_batch_size)
  IN IF ~c.s.previous \/ batch_size < min_batch_size
     THEN c
     ELSE [c EXCEPT !.s.signaled_demand = TRUE,
                    !.up = Append(@, Pull(batch_size, max_batch_timeout))]

\* ---- request_more_input -------------------------------------------------
request_more_input(c) ==
  LET c0 == IF c.s.inbound_buffer_size <= max_buffered THEN c
            ELSE [c EXCEPT !.s.assert_failed = TRUE]
      batch_size == Min(max_buffered - c.s.inbound_buffer_size, max_batch_size)
  IN IF ~c0.s.previous \/ c0.s.signaled_demand \/ batch_size < min_batch_size
     THEN c0
     ELSE [c0 EXCEPT !.s.signaled_demand = TRUE,
                     !.up = Append(@, Pull(batch_size, max_batch_timeout))]

\* handle_result / handle_error of the pull request
pull_handle_result(c) ==
  schedule_run([c EXCEPT !.s.signaled_demand = FALSE])

\* a variant that keeps the handle of an upstream that is down
pull_handle_error_keep(c, receiver_down) ==
  LET c1 == schedule_run([c EXCEPT !.s.signaled_demand = FALSE])
  IN IF receiver_down THEN c1
     ELSE IF c1.s.previous THEN diagnostic_emit(c1, "warning")
     ELSE c1

pull_handle_error(c, receiver_down) ==
  LET c1 == schedule_run([c EXCEPT !.s.signaled_demand = FALSE])
  IN IF receiver_down THEN [c1 EXCEPT !.s.previous = FALSE]
     ELSE IF c1.s.previous THEN diagnostic_emit(c1, "warning")
     ELSE c1

\* ---- input adapter ------------------------------------------------------
\* One resumption of the coroutine of make_input_adapter: it runs to its next
\* co_yield (got) or to its end (got_end).
adapter_pop(c) ==
  LET next == Head(c.s.inbound_buffer)
  IN [c EXCEPT !.s.inbound_buffer = Tail(@),
               !.s.inbound_buffer_size = @ - size(next),
               !.s.assert_failed = @ \/ size(next) = 0,
               !.s.stalled = FALSE,
               !.s.adapter = "yielded_elem",
               !.s.hist_read = @ \o next,
               !.got = next, !.got_end = FALSE]

\* a variant that ends the input as soon as the upstream is gone
input_adapter_next_early(c) ==
  IF c.s.adapter = "yielded_elem" /\ c.s.inbound_buffer # <<>>
    THEN adapter_pop(c)
  ELSE IF c.s.previous \/ c.s.signaled_demand
    THEN IF c.s.inbound_buffer_size = 0
         THEN [c EXCEPT !.s.assert_failed = @ \/ c.s.inbound_buffer # <<>>,
                        !.s.stalled = TRUE,
                        !.s.adapter = "yielded_empty",
                        !.got = <<>>, !.got_end = FALSE]
         ELSE IF c.s.inbound_buffer # <<>> THEN adapter_pop(c)
         ELSE [c EXCEPT !.s.hung = TRUE, !.got = <<>>, !.got_end = FALSE]
  ELSE [c EXCEPT !.s.stalled = FALSE, !.s.adapter = "done",
                 !.got = <<>>, !.got_end = TRUE]

input_adapter_next(c) ==
  IF c.s.adapter = "yielded_elem" /\ c.s.inbound_buffer # <<>>
    THEN adapter_pop(c)
  ELSE IF c.s.previous \/ c.s.inbound_buffer_size > 0 \/ c.s.signaled_demand
    THEN IF c.s.inbound_buffer_size = 0
         THEN [c EXCEPT !.s.assert_failed = @ \/ c.s.inbound_buffer # <<>>,
                        !.s.stalled = TRUE,
                        !.s.adapter = "yielded_empty",
                        !.got = <<>>, !.got_end = FALSE]
         ELSE IF c.s.inbound_buffer # <<>> THEN adapter_pop(c)
         \* a positive count over an empty vector: the outer loop spins
         ELSE [c EXCEPT !.s.hung = TRUE, !.got = <<>>, !.got_end = FALSE]
  ELSE [c EXCEPT !.s.stalled = FALSE, !.s.adapter = "done",
                 !.got = <<>>, !.got_end = TRUE]

\* ---- operators ----------------------------------------------------------
\* What the operator's coroutine does between two co_yields is chosen by the
\* environment.  A source yields the rows 1..NumRows in elements of 1..MaxElem
\* rows and returns after the last row.  Every other operator loops over its
\* input (`for (auto&& x : input)`): it reads one input and yields for it (a
\* transformation passes it on, a sink consumes it and yields
\* std::monostate), or yields an empty token without reading, and returns
\* when its input has ended.  An operator may call ctrl.abort and return
\* (save_operator, write_to.cpp:69-73); at most one operator of a pipeline
\* does, the other nodes learn of it through the protocol.  Where the
\* pipeline allows it, an operator may also return before its input ends
\* (slice.cpp:37), report two errors before it returns, or warn and yield
\* an empty token.
Rows(from, k) == [i \in 1 .. k |-> from + i - 1]

OpChoices ==
  [kind : {"read", "idle", "abort", "end", "return", "abort2", "warn"},
   size : {0}]
    \cup [kind : {"yield"}, size : 1 .. MaxElem]

\* the steps that an operator at the place of node n in this pipeline has
OpChoicesOf(n) ==
  {ch \in OpChoices :
     /\ ch.kind \in ops
     /\ ch.kind \in {"yield", "end"} => IsSource(n)
     /\ ch.kind \in {"read", "idle", "return"} => HasInput(n)}

OpEnabled(s, n, ch) ==
  /\ ch.kind \in ops
  /\ CASE ch.kind = "yield" ->
             IsSource(n) /\ s.src_next + ch.size - 1 <= NumRows
        [] ch.kind = "end" -> IsSource(n) /\ s.src_next > NumRows
        [] ch.kind = "read" -> HasInput(n) /\ s.adapter # "done"
        [] ch.kind = "idle" -> HasInput(n)
        [] ch.kind = "abort" -> \A m \in Nodes : node[m].abort = NoError
        [] ch.kind = "return" -> HasInput(n)
        [] ch.kind = "abort2" -> s.aborts <= 1
        [] ch.kind = "warn" -> s.warns = 0

\* the body of the operator's coroutine up to its next co_yield or its return
op_resume(c, n, ch) ==
  CASE ch.kind = "yield" ->
         [c EXCEPT !.s.cur = Rows(c.s.src_next, ch.size),
                   !.s.src_next = @ + ch.size]
    [] ch.kind = "end" -> [c EXCEPT !.s.it_end = TRUE, !.s.cur = <<>>]
    [] ch.kind = "idle" -> [c EXCEPT !.s.cur = <<>>]
    [] ch.kind = "abort" ->
         LET c1 == ctrl_abort(c, "operator failed")
         IN [c1 EXCEPT !.s.it_end = TRUE, !.s.cur = <<>>]
    [] ch.kind = "return" -> [c EXCEPT !.s.it_end = TRUE, !.s.cur = <<>>]
    [] ch.kind = "abort2" ->
         LET c1 == ctrl_abort(ctrl_abort(c, "first error"), "second error")
         IN [c1 EXCEPT !.s.it_end = TRUE, !.s.cur = <<>>]
    [] ch.kind = "warn" -> [ctrl_warn(c, "warning") EXCEPT !.s.cur = <<>>]
    [] ch.kind = "read" ->
         LET c1 == input_adapter_next(c)
         IN IF c1.got_end THEN [c1 EXCEPT !.s.it_end = TRUE, !.s.cur = <<>>]
            ELSE [c1 EXCEPT !.s.cur = IF IsSink(n) THEN <<>> ELSE c1.got]

\* ---- advance_generator --------------------------------------------------
advance_generator(c, n, ch) ==
  LET c0 == IF c.s.instance /\ ~c.s.it_end THEN c
            ELSE [c EXCEPT !.s.assert_failed = TRUE]
  IN IF HasOutput(n) /\ c0.s.outbound_buffer_size >= max_buffered
     THEN [c0 EXCEPT !.ret = FALSE]
     ELSE
       LET next == c0.s.cur
           c1 == op_resume([c0 EXCEPT !.advanced = @ + 1], n, ch)
           nonempty == HasOutput(n) /\ size(next) > 0
           c2 == IF nonempty
                 THEN [c1 EXCEPT !.s.outbound_buffer_size = @ + size(next),
                                 !.s.outbound_buffer = Append(@, next),
                                 !.s.hist_yielded = @ \o next]
                 ELSE c1
       IN IF c2.s.abort # NoError
          THEN [quit(c2, c2.s.abort) EXCEPT !.ret = FALSE]
          ELSE [c2 EXCEPT !.ret = ~nonempty /\ ~c2.s.it_end]

\* ---- deliver_batches ----------------------------------------------------
\* the reply to the pull that created the demand goes to the demand's sink
demand_reply(c, t) ==
  LET c1 == IF c.s.current_demand.sink = "next"
            THEN [c EXCEPT !.down = Append(@, Msg(t, 0, <<>>))]
            ELSE [c EXCEPT !.s.foreign_reply = t]
  IN [c1 EXCEPT !.s.current_demand = NoDemand]

\* a variant that keeps the old count after removing the pushed prefix
push_handle_result_norecount(c) ==
  LET capped_demand == c.s.push_capped
      parts == split_vec(c.s.outbound_buffer, capped_demand)
      c1 == [c EXCEPT !.s.outbound_buffer = parts[2],
                      !.s.push_capped = 0, !.s.awaiting = FALSE]
  IN schedule_run(demand_reply(c1, "pull_ok"))

push_handle_result(c) ==
  LET capped_demand == c.s.push_capped
      parts == split_vec(c.s.outbound_buffer, capped_demand)
      c1 == [c EXCEPT !.s.outbound_buffer = parts[2],
                      !.s.outbound_buffer_size = SumSizes(parts[2]),
                      !.s.push_capped = 0, !.s.awaiting = FALSE]
  IN schedule_run(demand_reply(c1, "pull_ok"))

\* a variant that drops the elements of a push that failed
push_handle_error_dropping(c) ==
  LET parts == split_vec(c.s.outbound_buffer, c.s.push_capped)
      c1 == [c EXCEPT !.s.outbound_buffer = parts[2],
                      !.s.outbound_buffer_size = SumSizes(parts[2]),
                      !.s.push_capped = 0, !.s.awaiting = FALSE]
  IN schedule_run(demand_reply(c1, "pull_err"))

push_handle_error(c) ==
  LET c1 == [c EXCEPT !.s.push_capped = 0, !.s.awaiting = FALSE]
  IN schedule_run(demand_reply(c1, "pull_err"))

\* a variant that pushes the whole outbound buffer
deliver_batches_uncapped(c, now_expired, force) ==
  IF ~c.s.current_demand.present \/ c.s.current_demand.ongoing THEN c
  ELSE IF ~force
          /\ (c.s.it_end
              \/ c.s.outbound_buffer_size < c.s.current_demand.batch_size)
          /\ ~now_expired
    THEN c
  ELSE
    LET c1 == [c EXCEPT !.s.current_demand.ongoing = TRUE]
        capped_demand == c1.s.outbound_buffer_size
    IN IF capped_demand = 0
       THEN schedule_run(demand_reply(c1, "pull_ok"))
       ELSE
         LET lhs == split_vec(c1.s.outbound_buffer, capped_demand)[1]
             c2 == IF c1.s.current_demand.sink = "next"
                   THEN [c1 EXCEPT !.down = Append(@, Msg("push", 0, lhs))]
                   ELSE [c1 EXCEPT !.s.foreign_push = TRUE]
         IN [c2 EXCEPT !.s.push_capped = capped_demand,
                       !.s.awaiting = force \/ c1.s.outbound_buffer_size
                                                 >= max_buffered]

\* a variant that does not wait for the deadline
deliver_batches_eager(c, now_expired, force) ==
  IF ~c.s.current_demand.present \/ c.s.current_demand.ongoing THEN c
  ELSE
    LET c1 == [c EXCEPT !.s.current_demand.ongoing = TRUE]
        capped_demand == Min(c1.s.outbound_buffer_size,
                             c1.s.current_demand.batch_size)
    IN IF capped_demand = 0
       THEN schedule_run(demand_reply(c1, "pull_ok"))
       ELSE
         LET lhs == split_vec(c1.s.outbound_buffer, capped_demand)[1]
             c2 == IF c1.s.current_demand.sink = "next"
                   THEN [c1 EXCEPT !.down = Append(@, Msg("push", 0, lhs))]
                   ELSE [c1 EXCEPT !.s.foreign_push = TRUE]
         IN [c2 EXCEPT !.s.push_capped = capped_demand,
                       !.s.awaiting = force \/ c1.s.outbound_buffer_size
                                                 >= max_buffered]

deliver_batches(c, now_expired, force) ==
  IF ~c.s.current_demand.present \/ c.s.current_demand.ongoing THEN c
  ELSE IF ~force
          /\ (c.s.it_end
              \/ c.s.outbound_buffer_size < c.s.current_demand.batch_size)
          /\ ~now_expired
    THEN c
  ELSE
    LET c1 == [c EXCEPT !.s.current_demand.ongoing = TRUE]
        capped_demand == Min(c1.s.outbound_buffer_size,
                             c1.s.current_demand.batch_size)
    IN IF capped_demand = 0
       THEN schedule_run(demand_reply(c1, "pull_ok"))
       ELSE
         LET lhs == split_vec(c1.s.outbound_buffer, capped_demand)[1]
             c2 == IF c1.s.current_demand.sink = "next"
                   THEN [c1 EXCEPT !.down = Append(@, Msg("push", 0, lhs))]
                   ELSE [c1 EXCEPT !.s.foreign_push = TRUE]
         IN [c2 EXCEPT !.s.push_capped = capped_demand,
                       !.s.awaiting = force \/ c1.s.outbound_buffer_size
                                                 >= max_buffered]

\* a variant that replaces the pending demand by the new one
pull_overwrite(c, sink, batch_size) ==
  IF c.s.reject_demand
  THEN IF sink = "next" THEN [c EXCEPT !.s.delayed = @ + 1] ELSE c
  ELSE [schedule_run(c) EXCEPT !.s.current_demand =
          [present |-> TRUE, batch_size |-> batch_size,
           expired |-> FALSE, ongoing |-> FALSE, sink |-> sink]]

\* a variant that answers a rejected pull at once
pull_reject_now(c, sink, batch_size) ==
  IF c.s.reject_demand
  THEN IF sink = "next"
       THEN [c EXCEPT !.down = Append(@, Msg("pull_ok", 0, <<>>))] ELSE c
  ELSE LET c1 == schedule_run(c)
       IN IF c1.s.current_demand.present
          THEN IF sink = "next"
               THEN [c1 EXCEPT !.down = Append(@, Msg("pull_err", 0, <<>>))]
               ELSE [c1 EXCEPT !.s.foreign_reply = "concurrent pull"]
          ELSE [c1 EXCEPT !.s.current_demand =
                  [present |-> TRUE, batch_size |-> batch_size,
                   expired |-> FALSE, ongoing |-> FALSE, sink |-> sink]]

\* ---- pull and push handlers ---------------------------------------------
\* pull(sink, batch_size, batch_timeout); sink is "next" for the downstream
\* node and "foreign" for any other actor, whose replies are not modelled.
pull(c, sink, batch_size) ==
  IF c.s.reject_demand
  THEN IF sink = "next" THEN [c EXCEPT !.s.delayed = @ + 1] ELSE c
  ELSE LET c1 == schedule_run(c)
       IN IF c1.s.current_demand.present
          THEN IF sink = "next"
               THEN [c1 EXCEPT !.down = Append(@, Msg("pull_err", 0, <<>>))]
               ELSE [c1 EXCEPT !.s.foreign_reply = "concurrent pull"]
          ELSE [c1 EXCEPT !.s.current_demand =
                  [present |-> TRUE, batch_size |-> batch_size,
                   expired |-> FALSE, ongoing |-> FALSE, sink |-> sink]]

\* push(input); from is "prev" for the upstream node, "foreign" otherwise
push_reply(c, from, t) ==
  IF from = "prev" THEN [c EXCEPT !.up = Append(@, Msg(t, 0, <<>>))]
  ELSE [c EXCEPT !.s.foreign_reply = t]

\* a variant that inserts the accepted elements at the front
push_front(c, from, input) ==
  LET c1 == schedule_run(c)
      input_size == SumSizes(input)
  IN IF input_size = 0 THEN push_reply(c1, from, "push_err")
     ELSE IF c1.s.inbound_buffer_size + input_size > max_buffered
       THEN push_reply(c1, from, "push_full")
     ELSE push_reply([c1 EXCEPT !.s.inbound_buffer = input \o @,
                                !.s.inbound_buffer_size = @ + input_size],
                     from, "push_ok")

\* a variant that accepts every non-empty batch
push_nocap(c, from, input) ==
  LET c1 == schedule_run(c)
      input_size == SumSizes(input)
  IN IF input_size = 0 THEN push_reply(c1, from, "push_err")
     ELSE push_reply([c1 EXCEPT !.s.inbound_buffer = @ \o input,
                                !.s.inbound_buffer_size = @ + input_size],
                     from, "push_ok")

push(c, from, input) ==
  LET c1 == schedule_run(c)
      input_size == SumSizes(input)
  IN IF input_size = 0 THEN push_reply(c1, from, "push_err")
     ELSE IF c1.s.inbound_buffer_size + input_size > max_buffered
       THEN push_reply(c1, from, "push_full")
     ELSE push_reply([c1 EXCEPT !.s.inbound_buffer = @ \o input,
                                !.s.inbound_buffer_size = @ + input_size],
                     from, "push_ok")

\* ---- run ----------------------------------------------------------------
\* a variant that steps the operator a second time in the same run
advance_loop_again(c, n, chs, i) ==
  IF ~c.s.it_end /\ ~OpEnabled(c.s, n, chs[i])
  THEN [c EXCEPT !.ret = FALSE, !.valid = FALSE]
  ELSE LET c1 == advance_generator(c, n, chs[i])
       IN IF ~c1.ret \/ ~OpEnabled(c1.s, n, chs[i]) THEN c1
          ELSE advance_generator(c1, n, chs[i])

RECURSIVE advance_loop(_, _, _, _)
advance_loop(c, n, chs, i) ==
  IF i > max_advances_per_run THEN c
  ELSE IF ~c.s.it_end /\ ~OpEnabled(c.s, n, chs[i])
    THEN [c EXCEPT !.ret = FALSE, !.valid = FALSE]
  ELSE LET c1 == advance_generator(c, n, chs[i])
       IN IF ~c1.ret THEN c1 ELSE advance_loop(c1, n, chs, i + 1)

\* a variant that does not look at the upstream's termination
reschedule_alive_only(c, n) ==
  IF IsSink(n)
  THEN IF ~c.s.stalled THEN schedule_run(c)
       ELSE [c EXCEPT !.s.assert_failed = @ \/ ~c.s.signaled_demand]
  ELSE IF ~c.s.stalled
          /\ (c.s.current_demand.present
              \/ (c.s.outbound_buffer_size < max_buffered /\ ~c.s.it_end))
       THEN schedule_run(c) ELSE c

reschedule(c, n) ==
  IF IsSink(n)
  THEN IF ~c.s.stalled THEN schedule_run(c)
       ELSE [c EXCEPT !.s.assert_failed = @ \/ ~c.s.signaled_demand]
  ELSE IF IsSource(n)
  THEN IF ~c.s.stalled
          /\ (c.s.current_demand.present
              \/ (c.s.outbound_buffer_size < max_buffered /\ ~c.s.it_end))
       THEN schedule_run(c) ELSE c
  ELSE LET can_generate == c.s.outbound_buffer_size < max_buffered
                           /\ ~c.s.it_end
           should_produce == c.s.current_demand.present
           is_previous_dead == ~c.s.previous
       IN IF is_previous_dead
             \/ (~c.s.stalled /\ (should_produce \/ can_generate))
          THEN schedule_run(c) ELSE c

\* a variant that quits at the end of the generator without draining
run_quit_early(c, n, chs) ==
  LET c0 == [c EXCEPT !.s.run_scheduled = FALSE,
                      !.s.assert_failed = @ \/ ~c.s.instance]
      now_expired == c0.s.current_demand.expired
  IN IF c0.s.it_end
     THEN quit(c0, NoError)
     ELSE LET c1 == IF HasOutput(n)
                    THEN deliver_batches(c0, now_expired, FALSE) ELSE c0
              c2 == IF HasInput(n) THEN request_more_input(c1) ELSE c1
              c3 == advance_loop(c2, n, chs, 1)
              c4 == [c3 EXCEPT !.s.advances = IF c3.advanced > @
                                              THEN c3.advanced ELSE @]
          IN reschedule(c4, n)

\* run(), entered from the action that schedule_run() has scheduled.  The
\* exit_reason::normal it sends upstream at the end of its generator is not
\* a message of the model: an actor's default exit handler ignores it.
run(c, n, chs) ==
  LET c0 == [c EXCEPT !.s.run_scheduled = FALSE,
                      !.s.assert_failed = @ \/ ~c.s.instance]
      now_expired == c0.s.current_demand.expired
  IN IF c0.s.it_end
     THEN IF HasOutput(n)
          THEN LET c1 == IF c0.s.current_demand.present
                            /\ c0.s.outbound_buffer_size = 0
                         THEN [c0 EXCEPT !.s.reject_demand = TRUE] ELSE c0
               IN IF c1.s.current_demand.present
                     \/ c1.s.outbound_buffer_size > 0
                  THEN schedule_run(deliver_batches(c1, now_expired, TRUE))
                  ELSE quit(c1, NoError)
          ELSE quit(c0, NoError)
     ELSE LET c1 == IF HasOutput(n)
                    THEN deliver_batches(c0, now_expired, FALSE) ELSE c0
              c2 == IF HasInput(n) THEN request_more_input(c1) ELSE c1
              c3 == advance_loop(c2, n, chs, 1)
              c4 == [c3 EXCEPT !.s.advances = IF c3.advanced > @
                                              THEN c3.advanced ELSE @]
          IN reschedule(c4, n)

\* ---- start --------------------------------------------------------------
\* the chain the pipeline executor hands to the sink: the sink's predecessors
\* in the order of the pipeline
Chain(n) == [i \in 1 .. n |-> i - 1]

\* a variant that takes the first node of the chain as its upstream
take_previous_front(previous) ==
  [handle |-> Head(previous), rest |-> Tail(previous)]

\* this->previous = previous.back(); previous.pop_back()
take_previous(previous) ==
  [handle |-> previous[Len(previous)],
   rest |-> SubSeq(previous, 1, Len(previous) - 1)]

\* caf::make_error(ec::logic_error, ...)
logic_error(msg) == [code |-> "logic_error", msg |-> msg]

\* a variant that does not look at the abort latch after gen.begin()
start_unlatched(c, n, ch, previous) ==
  LET c0 == [c EXCEPT !.s.starts = Min(@ + 1, 2)]
  IN IF c0.s.instance
       THEN [c0 EXCEPT !.start_reply = "err",
                       !.error = logic_error("was already started")]
     ELSE IF IsSource(n) /\ previous # <<>>
       THEN [c0 EXCEPT !.start_reply = "err",
                       !.error = logic_error("must not have a previous")]
     ELSE IF ~IsSource(n) /\ previous = <<>>
       THEN [c0 EXCEPT !.start_reply = "err",
                       !.error = logic_error("must have a previous")]
     ELSE IF ~OpEnabled(c0.s, n, ch) THEN [c0 EXCEPT !.valid = FALSE]
     ELSE
       LET taken == take_previous(previous)
           c1 == IF HasInput(n)
                 THEN [c0 EXCEPT !.s.previous = TRUE,
                                 !.s.handle = taken.handle]
                 ELSE c0
           c2 == op_resume([c1 EXCEPT !.s.instance = TRUE], n, ch)
       IN IF HasInput(n)
            THEN [c2 EXCEPT !.up = Append(@, Msg("start", 0, taken.rest))]
          ELSE [c2 EXCEPT !.start_reply = "ok"]

\* a variant that instantiates the operator whenever the chain fits
start_again(c, n, ch, previous) ==
  LET c0 == [c EXCEPT !.s.starts = Min(@ + 1, 2)]
  IN IF IsSource(n) /\ previous # <<>>
       THEN [c0 EXCEPT !.start_reply = "err",
                       !.error = logic_error("must not have a previous")]
     ELSE IF ~IsSource(n) /\ previous = <<>>
       THEN [c0 EXCEPT !.start_reply = "err",
                       !.error = logic_error("must have a previous")]
     ELSE IF ~OpEnabled(c0.s, n, ch) THEN [c0 EXCEPT !.valid = FALSE]
     ELSE
       LET taken == take_previous(previous)
           c1 == IF HasInput(n)
                 THEN [c0 EXCEPT !.s.previous = TRUE,
                                 !.s.handle = taken.handle]
                 ELSE c0
           c2 == op_resume([c1 EXCEPT !.s.instance = TRUE], n, ch)
       IN IF c2.s.abort # NoError
            THEN [c2 EXCEPT !.start_reply = "err", !.error = c2.s.abort]
          ELSE IF HasInput(n)
            THEN [c2 EXCEPT !.up = Append(@, Msg("start", 0, taken.rest))]
          ELSE [c2 EXCEPT !.start_reply = "ok"]

\* start(previous).  The operator's generator is created and advanced to its
\* first co_yield (gen.begin()).  The request that forwards the rest of the
\* chain travels over the node's upstream link: the links of the model are
\* those of the pipeline the executor has built.
start(c, n, ch, previous) ==
  LET c0 == [c EXCEPT !.s.starts = Min(@ + 1, 2)]
  IN IF c0.s.instance
       THEN [c0 EXCEPT !.start_reply = "err",
                       !.error = logic_error("was already started")]
     ELSE IF IsSource(n) /\ previous # <<>>
       THEN [c0 EXCEPT !.start_reply = "err",
                       !.error = logic_error("must not have a previous")]
     ELSE IF ~IsSource(n) /\ previous = <<>>
       THEN [c0 EXCEPT !.start_reply = "err",
                       !.error = logic_error("must have a previous")]
     ELSE IF ~OpEnabled(c0.s, n, ch) THEN [c0 EXCEPT !.valid = FALSE]
     ELSE
       LET taken == take_previous(previous)
           c1 == IF HasInput(n)
                 THEN [c0 EXCEPT !.s.previous = TRUE,
                                 !.s.handle = taken.handle]
                 ELSE c0
           c2 == op_resume([c1 EXCEPT !.s.instance = TRUE], n, ch)
       IN IF c2.s.abort # NoError
            THEN [c2 EXCEPT !.start_reply = "err", !.error = c2.s.abort]
          ELSE IF HasInput(n)
            THEN [c2 EXCEPT !.up = Append(@, Msg("start", 0, taken.rest))]
          ELSE [c2 EXCEPT !.start_reply = "ok"]

\* ---- the actor system ---------------------------------------------------
Dead(m) == node[m].exit # "alive"
Alive(m) == node[m].exit = "alive" /\ ~node[m].hung
\* the node takes the next message of its mailbox (not while it awaits)
Ready(m) == Alive(m) /\ ~node[m].awaiting

\* the error responses a terminated actor's mailbox produces for requests
Bounced(msgs, request, response) ==
  LET reqs == SelectSeq(msgs, LAMBDA m : m.type = request)
  IN [i \in 1 .. Len(reqs) |-> Msg(response, 0, <<>>)]

Repeat(m, k) == [i \in 1 .. k |-> m]

\* The effects of a handler of node n that ran on context c, cu and cd being
\* the channels after the handler took its message: its messages are sent (a
\* request to a terminated actor is answered with an error), and if the node
\* has quit, its monitor gets the down message, its unfulfilled response
\* promises break, and the requests left in its mailbox are bounced; the
\* down message reaches the monitor before or after these error responses.
Commit(n, c, cu, cd, b) ==
  LET dying == c.s.exit # "alive"
      upDead == HasInput(n) /\ Dead(n - 1)
      downDead == HasOutput(n) /\ Dead(n + 1)
      reason == IF c.s.exit = "normal" THEN "normal" ELSE "error"
      broken == (IF c.s.current_demand.present
                    /\ c.s.current_demand.sink = "next" THEN 1 ELSE 0)
                + c.s.delayed
      toUp == IF upDead THEN <<>>
              ELSE cu[n - 1] \o c.up
                   \o (IF dying THEN Bounced(cd[n - 1], "push", "push_err")
                       ELSE <<>>)
      fromUp == IF dying THEN <<>>
                ELSE cd[n - 1]
                     \o (IF upDead THEN Bounced(c.up, "pull", "pull_down")
                         ELSE <<>>)
      down_msg == IF node[n + 1].instance
                  THEN <<Msg("down", 0, <<reason>>)>> ELSE <<>>
      responses == Repeat(Msg("pull_err", 0, <<>>), broken)
                   \o Bounced(cu[n], "pull", "pull_down")
      toDown(down_first) ==
        IF downDead THEN <<>>
        ELSE cd[n] \o c.down
             \o (IF ~dying THEN <<>>
                 ELSE IF down_first THEN down_msg \o responses
                 ELSE responses \o down_msg)
      orders == IF dying /\ HasOutput(n) /\ ~downDead
                   /\ down_msg # <<>> /\ responses # <<>>
                THEN BOOLEAN ELSE {TRUE}
      fromDown == IF dying THEN <<>>
                  ELSE cu[n]
                       \o (IF downDead THEN Bounced(c.down, "push", "push_err")
                           ELSE <<>>)
  IN /\ c.valid
     /\ node' = [node EXCEPT ![n] = c.s]
     /\ chan_up' = [i \in Links |->
                      IF HasInput(n) /\ i = n - 1 THEN toUp
                      ELSE IF HasOutput(n) /\ i = n THEN fromDown
                      ELSE cu[i]]
     /\ \E down_first \in orders :
          chan_down' = [i \in Links |->
                          IF HasInput(n) /\ i = n - 1 THEN fromUp
                          ELSE IF HasOutput(n) /\ i = n
                            THEN toDown(down_first)
                          ELSE cd[i]]
     /\ boot' = IF c.start_reply = "none" THEN b
                ELSE IF IsSink(n)
                  THEN [b EXCEPT !.result = c.start_reply, !.error = c.error]
                ELSE [b EXCEPT !.reply = c.start_reply, !.error = c.error]
     /\ UNCHANGED <<ops, call>>

FromUp(n) == chan_down[n - 1]
FromDown(n) == chan_up[n]
TakeFromUp(n) == [chan_down EXCEPT ![n - 1] = Tail(@)]
TakeFromDown(n) == [chan_up EXCEPT ![n] = Tail(@)]

\* the pipeline executor is about to send start to the sink; error is the
\* error of the last answer to a start request
NoBoot == [to_sink |-> TRUE, reply |-> "none", result |-> "pending",
          error |-> NoError]

Init ==
  /\ node = [n \in Nodes |-> InitNode]
  /\ chan_up = [i \in Links |-> <<>>]
  /\ chan_down = [i \in Links |-> <<>>]
  /\ boot = NoBoot
  /\ ops = {"yield", "end", "read", "idle", "abort"}
  /\ injected = {}
  /\ call = NoCall

\* ---- actions: one per message an actor handles --------------------------
\* the sink receives the start request of the pipeline executor
StartSink(n) ==
  /\ IsSink(n) /\ Ready(n) /\ boot.to_sink
  /\ \E ch \in OpChoicesOf(n) :
       Commit(n, start(Ctx(node[n]), n, ch, Chain(n)), chan_up, chan_down,
              [boot EXCEPT !.to_sink = FALSE])
  /\ UNCHANGED injected

\* a node receives the start request its successor sent or delegated
Start(n) ==
  /\ HasOutput(n) /\ Ready(n)
  /\ FromDown(n) # <<>> /\ Head(FromDown(n)).type = "start"
  /\ \E ch \in OpChoicesOf(n) :
       Commit(n, start(Ctx(node[n]), n, ch, Head(FromDown(n)).elems),
              TakeFromDown(n), chan_down, boot)
  /\ UNCHANGED injected

\* a variant that schedules the sink's run whatever the answer
StartReplyAlways(n) ==
  /\ IsSink(n) /\ Ready(n) /\ boot.reply \in {"ok", "err"}
  /\ LET c == schedule_run(Ctx(node[n]))
     IN Commit(n, [c EXCEPT !.start_reply = boot.reply,
                            !.error = boot.error],
               chan_up, chan_down, [boot EXCEPT !.reply = "none"])
  /\ UNCHANGED injected

\* the sink receives the answer to the start request it sent upstream
StartReply(n) ==
  /\ IsSink(n) /\ Ready(n) /\ boot.reply \in {"ok", "err"}
  /\ LET c == IF boot.reply = "ok" THEN schedule_run(Ctx(node[n]))
              ELSE Ctx(node[n])
     IN Commit(n, [c EXCEPT !.start_reply = boot.reply,
                            !.error = boot.error],
               chan_up, chan_down, [boot EXCEPT !.reply = "none"])
  /\ UNCHANGED injected

\* the scheduled action fires: run()
Run(n) ==
  /\ Ready(n) /\ node[n].run_scheduled
  /\ \E chs \in [1 .. max_advances_per_run -> OpChoicesOf(n)] :
       Commit(n, run(Ctx(node[n]), n, chs), chan_up, chan_down, boot)
  /\ UNCHANGED injected

RecvPull(n) ==
  /\ HasOutput(n) /\ Ready(n)
  /\ FromDown(n) # <<>> /\ Head(FromDown(n)).type = "pull"
  /\ Commit(n, pull(Ctx(node[n]), "next", Head(FromDown(n)).batch_size),
            TakeFromDown(n), chan_down, boot)
  /\ UNCHANGED injected

RecvPush(n) ==
  /\ HasInput(n) /\ Ready(n)
  /\ FromUp(n) # <<>> /\ Head(FromUp(n)).type = "push"
  /\ Commit(n, push(Ctx(node[n]), "prev", Head(FromUp(n)).elems),
            chan_up, TakeFromUp(n), boot)
  /\ UNCHANGED injected

\* the response to the pull request arrives
PullResponse(n) ==
  /\ HasInput(n) /\ Ready(n) /\ FromUp(n) # <<>>
  /\ LET m == Head(FromUp(n))
     IN /\ m.type \in {"pull_ok", "pull_err", "pull_down"}
        /\ Commit(n, IF m.type = "pull_ok"
                     THEN pull_handle_result(Ctx(node[n]))
                     ELSE pull_handle_error(Ctx(node[n]),
                                            m.type = "pull_down"),
                  chan_up, TakeFromUp(n), boot)
  /\ UNCHANGED injected

\* the response to the push request arrives (also while awaiting it)
PushResponse(n) ==
  /\ HasOutput(n) /\ Alive(n) /\ FromDown(n) # <<>>
  /\ LET m == Head(FromDown(n))
     IN /\ m.type \in {"push_ok", "push_err", "push_full"}
        /\ Commit(n, IF m.type = "push_ok"
                     THEN push_handle_result(Ctx(node[n]))
                     ELSE push_handle_error(Ctx(node[n])),
                  TakeFromDown(n), chan_down, boot)
  /\ UNCHANGED injected

\* a variant that aborts whatever the reason of the termination
down_handler_always_abort(c, reason) ==
  IF ~c.s.previous THEN c
  ELSE ctrl_abort(schedule_run([c EXCEPT !.s.previous = FALSE,
                                         !.s.signaled_demand = FALSE]),
                  "irregular exit of previous operator")

\* the down handler set in start()
down_handler(c, reason) ==
  IF ~c.s.previous THEN c
  ELSE LET c1 == schedule_run([c EXCEPT !.s.previous = FALSE,
                                        !.s.signaled_demand = FALSE])
       IN IF reason # "normal"
          THEN ctrl_abort(c1, "irregular exit of previous operator")
          ELSE c1

Down(n) ==
  /\ HasInput(n) /\ Ready(n)
  /\ FromUp(n) # <<>> /\ Head(FromUp(n)).type = "down"
  /\ Commit(n, down_handler(Ctx(node[n]), Head(FromUp(n)).elems[1]),
            chan_up, TakeFromUp(n), boot)
  /\ UNCHANGED injected

\* time passes the deadline of the pending demand
Tick(n) ==
  /\ HasOutput(n) /\ Alive(n)
  /\ node[n].current_demand.present /\ ~node[n].current_demand.expired
  /\ node' = [node EXCEPT ![n].current_demand.expired = TRUE]
  /\ UNCHANGED <<chan_up, chan_down, boot, ops, injected, call>>

\* batch_timeout after a rejected pull, its response promise is fulfilled
DelayedReply(n) ==
  /\ HasOutput(n) /\ Ready(n) /\ node[n].delayed > 0
  /\ LET c == Ctx(node[n])
     IN Commit(n, [c EXCEPT !.s.delayed = @ - 1,
                           !.down = <<Msg("pull_ok", 0, <<>>)>>],
               chan_up, chan_down, boot)
  /\ UNCHANGED injected

Next ==
  \E n \in Nodes :
    \/ StartSink(n)
    \/ Start(n)
    \/ StartReply(n)
    \/ Run(n)
    \/ RecvPull(n)
    \/ RecvPush(n)
    \/ PullResponse(n)
    \/ PushResponse(n)
    \/ Down(n)
    \/ Tick(n)
    \/ DelayedReply(n)

Spec == Init /\ [][Next]_vars

\* every node's fields stay in their types
TypeOK ==
  \A n \in Nodes :
    /\ node[n].exit \in {"alive", "normal", "error"}
    /\ node[n].inbound_buffer_size \in Nat
    /\ node[n].outbound_buffer_size \in Nat

\* ---- an open environment ------------------------------------------------
\* The handlers are the actor's public interface: any actor holding the
\* node's handle may send it push and pull.  A foreign actor sends two
\* messages, two pushes or a push and a pull in any order, to the
\* transformation node, which has both an inbound and an outbound side; the
\* rows of its first push are numbered 0, those of its second push -1.
ForeignSends == {"push", "second push", "pull"}
ForeignRow == IF "push" \in injected THEN 0 - 1 ELSE 0
ForeignElems == {[i \in 1 .. k |-> ForeignRow] : k \in 0 .. MaxElem}
ForeignBatches ==
  {<<>>} \cup {<<x>> : x \in ForeignElems}
         \cup {<< <<ForeignRow>>, y >> : y \in ForeignElems}

InjectPushOf(n, input) ==
  /\ HasInput(n) /\ HasOutput(n) /\ Ready(n)
  /\ Cardinality(injected) < 2
  /\ Commit(n, push(Ctx(node[n]), "foreign", input), chan_up, chan_down, boot)
  /\ injected' = injected \cup {IF "push" \in injected THEN "second push"
                                  ELSE "push"}

InjectPush(n) == \E input \in ForeignBatches : InjectPushOf(n, input)

InjectPull(n) ==
  /\ HasInput(n) /\ HasOutput(n) /\ Ready(n)
  /\ Cardinality(injected) < 2 /\ "pull" \notin injected
  /\ \E batch_size \in 1 .. max_batch_size :
       Commit(n, pull(Ctx(node[n]), "foreign", batch_size),
              chan_up, chan_down, boot)
  /\ injected' = injected \cup {"pull"}

\* the foreign sink answers the push it was sent, or has terminated
ForeignPushReply(n) ==
  /\ HasOutput(n) /\ Alive(n) /\ node[n].foreign_push
  /\ \E ok \in BOOLEAN :
       LET c == Ctx([node[n] EXCEPT !.foreign_push = FALSE])
       IN Commit(n, IF ok THEN push_handle_result(c)
                    ELSE push_handle_error(c),
                 chan_up, chan_down, boot)
  /\ UNCHANGED injected

NextOpen ==
  \/ Next
  \/ \E n \in Nodes : InjectPush(n)
  \/ \E n \in Nodes : InjectPull(n)
  \/ \E n \in Nodes : ForeignPushReply(n)

\* the pipeline of the open environment: its source has no rows to produce,
\* its operators read one input per step and do not abort; the data are the
\* rows the foreign actor pushes
InitOpen ==
  /\ node = [n \in Nodes |-> [InitNode EXCEPT !.src_next = NumRows + 1]]
  /\ chan_up = [i \in Links |-> <<>>]
  /\ chan_down = [i \in Links |-> <<>>]
  /\ boot = NoBoot
  /\ ops = {"yield", "end", "read"}
  /\ injected = {}
  /\ call = NoCall

SpecOpen == InitOpen /\ [][NextOpen]_vars


\* ======================================================================
\* Properties
\* ======================================================================
IsPrefix(a, b) == Len(a) <= Len(b) /\ SubSeq(b, 1, Len(a)) = a

Count(msgs, types) == Cardinality({i \in DOMAIN msgs : msgs[i].type \in types})

\* C1: the inbound element count of a node never exceeds max_buffered, for
\* any interleaving of push, pull and run, whoever sends the pushes.
C1_InboundBounded ==
  \A n \in Nodes : HasInput(n) => node[n].inbound_buffer_size <= max_buffered

\* a foreign push was turned away because it would overflow the buffer
C1_Witness ==
  \E n \in Nodes : /\ HasInput(n)
                   /\ node[n].foreign_reply = "push_full"
                   /\ node[n].inbound_buffer_size <= max_buffered

\* C2: the outbound element count of a node never exceeds max_buffered,
\* whatever the sizes of the elements its operator yields.
C2_OutboundBounded ==
  \A n \in Nodes : HasOutput(n) => node[n].outbound_buffer_size <= max_buffered

\* C3: on every link the elements the downstream operator has read are a
\* prefix of the elements the upstream operator has yielded, and are all of
\* them once the upstream node exited normally and the downstream input
\* sequence ended.
C3_StreamIntegrity ==
  \A n \in Nodes :
    HasInput(n) =>
      /\ IsPrefix(node[n].hist_read, node[n - 1].hist_yielded)
      /\ (node[n - 1].exit = "normal" /\ node[n].adapter = "done")
           => node[n].hist_read = node[n - 1].hist_yielded

\* the downstream operator has read every row to the end of its input
C3_Witness ==
  \E n \in Nodes :
    /\ HasInput(n)
    /\ node[n - 1].exit = "normal" /\ node[n].adapter = "done"
    /\ Len(node[n].hist_read) = NumRows

\* the pulls node n has sent that have not been answered to it yet: requests
\* in flight, the demand its upstream holds or will answer late, and
\* responses on their way back
UnansweredPulls(n) ==
  Count(chan_up[n - 1], {"pull"})
  + (IF Alive(n - 1) /\ node[n - 1].current_demand.present
        /\ node[n - 1].current_demand.sink = "next" THEN 1 ELSE 0)
  + (IF Alive(n - 1) THEN node[n - 1].delayed ELSE 0)
  + Count(chan_down[n - 1], {"pull_ok", "pull_err", "pull_down"})

\* C4: a node has at most one unanswered pull outstanding to its upstream
\* at any time, also after an error response and after the handler for the
\* upstream's termination has cleared the flag.
C4_OnePullInFlight ==
  \A n \in Nodes : HasInput(n) => UnansweredPulls(n) <= 1

\* the termination handler has cleared the flag while the answer to the
\* last pull is still on its way
C4_Witness ==
  \E n \in Nodes :
    /\ HasInput(n) /\ Alive(n)
    /\ node[n].previous = FALSE /\ ~node[n].signaled_demand
    /\ UnansweredPulls(n) = 1

\* C5: a pull received by a node that holds a pending demand is rejected
\* with the logic error "concurrent pull" and leaves the stored demand as
\* it is.
C5_ConcurrentPullRejected ==
  [][\A n \in Nodes :
       (/\ injected' # injected /\ node[n].current_demand.present
        /\ InjectPull(n))
         => /\ node'[n].current_demand = node[n].current_demand
            /\ node'[n].foreign_reply = "concurrent pull"]_vars

\* a foreign pull was rejected while the demand of the next node is pending
C5_Witness ==
  \E n \in Nodes : /\ node[n].foreign_reply = "concurrent pull"
                   /\ node[n].current_demand.present
                   /\ node[n].current_demand.sink = "next"

\* C6: each buffer's element count equals the sum of the sizes of the
\* elements it holds, also while a push of an outbound prefix is in flight
\* and after a failed push.
C6_CountsMatch ==
  \A n \in Nodes :
    /\ node[n].inbound_buffer_size = SumSizes(node[n].inbound_buffer)
    /\ node[n].outbound_buffer_size = SumSizes(node[n].outbound_buffer)

\* a push of a prefix is in flight while the buffer holds more than it
C6_Witness ==
  \E n \in Nodes : /\ HasOutput(n) /\ Alive(n)
                   /\ node[n].push_capped > 0
                   /\ node[n].outbound_buffer_size > node[n].push_capped

\* C7: a node that exited with reason normal had its operator's sequence
\* ended, its outbound buffer empty and no pending demand.
C7_NormalExitDrained ==
  \A n \in Nodes :
    node[n].exit = "normal"
      => /\ node[n].it_end
         /\ node[n].outbound_buffer_size = 0
         /\ node[n].outbound_buffer = <<>>
         /\ ~node[n].current_demand.present

\* a node with an outbound side exited normally after yielding rows
C7_Witness ==
  \E n \in Nodes : /\ HasOutput(n) /\ node[n].exit = "normal"
                   /\ node[n].hist_yielded # <<>>

\* C10: one execution of run() steps the operator at most once, whether the
\* step yields data, yields an empty token or reaches the end.
C10_OneStepPerRun == \A n \in Nodes : node[n].advances <= 1

\* every node has run its operator to the end, one step per run
C10_Witness ==
  \A n \in Nodes : node[n].advances = 1 /\ node[n].it_end


\* ---- a pipeline in which no operator aborts -----------------------------
InitNoAbort ==
  /\ node = [n \in Nodes |-> InitNode]
  /\ chan_up = [i \in Links |-> <<>>]
  /\ chan_down = [i \in Links |-> <<>>]
  /\ boot = NoBoot
  /\ ops = {"yield", "end", "read", "idle"}
  /\ injected = {}
  /\ call = NoCall

SpecNoAbort == InitNoAbort /\ [][Next]_vars

\* The pipeline has come to rest: no message is in flight, no live node has
\* a run scheduled or a delayed reply to send, and every deadline has
\* passed.  No action of Next is enabled in such a state, so it lasts
\* forever under any scheduling.
AtRest ==
  /\ \A i \in Links : chan_up[i] = <<>> /\ chan_down[i] = <<>>
  /\ ~boot.to_sink /\ boot.reply = "none"
  /\ \A n \in Nodes :
       Alive(n) => /\ ~node[n].run_scheduled
                   /\ node[n].delayed = 0
                   /\ node[n].current_demand.present
                        => node[n].current_demand.expired

\* C8: every pull a node accepted as its pending demand is eventually
\* completed while the node is alive, at the latest after its deadline; so
\* once the pipeline has come to rest no live node still holds a demand.
C8_DemandCompleted ==
  AtRest => \A n \in Nodes : Alive(n) => ~node[n].current_demand.present

\* C9: in a pipeline with a finite source, operators that end with their
\* input and no abort, every node eventually terminates with exit reason
\* normal; so once the pipeline has come to rest every node has done so.
C9_AllTerminateNormally ==
  AtRest => \A n \in Nodes : node[n].exit = "normal"

\* the outcome push(input) must have on node n: a logic error that leaves
\* the inbound side as it is, or the elements appended and counted
PushOutcome(n, input, reply) ==
  LET total == SumSizes(input)
  IN IF total = 0 \/ node[n].inbound_buffer_size + total > max_buffered
     THEN /\ reply \in {"push_err", "push_full"}
          /\ reply = "push_err" <=> total = 0
          /\ node'[n].inbound_buffer = node[n].inbound_buffer
          /\ node'[n].inbound_buffer_size = node[n].inbound_buffer_size
     ELSE /\ reply = "push_ok"
          /\ node'[n].inbound_buffer = node[n].inbound_buffer \o input
          /\ node'[n].inbound_buffer_size
               = node[n].inbound_buffer_size + total

\* C11: push(elements) is rejected with a logic error when the elements'
\* total size is zero or exceeds the free inbound capacity, and then leaves
\* inbound_buffer and inbound_buffer_size unchanged; an accepted push
\* appends the elements at the tail in order and adds their total size.
C11_PushContract ==
  [][/\ injected' # injected
          => \A n \in Nodes : \A input \in ForeignBatches :
               InjectPushOf(n, input)
                 => PushOutcome(n, input, node'[n].foreign_reply)
     /\ injected' = injected
          => \A n \in Nodes \ {0} :
               (/\ FromUp(n) # <<>> /\ Head(FromUp(n)).type = "push"
                /\ Alive(n - 1) /\ RecvPush(n))
                 => PushOutcome(n, Head(FromUp(n)).elems,
                                chan_up'[n - 1][Len(chan_up'[n - 1])].type)]_vars

\* the second foreign push was accepted behind the rows of the first
C11_Witness ==
  \E n \in Nodes : /\ HasInput(n)
                   /\ node[n].foreign_reply = "push_ok"
                   /\ node[n].inbound_buffer = << <<0>>, <<0 - 1>> >>

\* ---- a pipeline whose operators use the control plane freely ------------
\* Every operator may report two errors and return, warn, or return before
\* its input has ended; the source produces its last row only.
InitCtrl ==
  /\ node = [n \in Nodes |-> [InitNode EXCEPT !.src_next = NumRows]]
  /\ chan_up = [i \in Links |-> <<>>]
  /\ chan_down = [i \in Links |-> <<>>]
  /\ boot = NoBoot
  /\ ops = {"yield", "end", "read", "return", "abort2", "warn"}
  /\ injected = {}
  /\ call = NoCall

SpecCtrl == InitCtrl /\ [][Next]_vars

\* C12: abort(err) with a non-silent error sends one error diagnostic and
\* sets the abort latch if it is unset; once set, the latch is never
\* overwritten or cleared by a later abort, warning, diagnostic or message.
C12_AbortLatch ==
  [][\A n \in Nodes :
       /\ node[n].abort # NoError => node'[n].abort = node[n].abort
       /\ node'[n].aborts > node[n].aborts
            => /\ node'[n].abort # NoError
               /\ node'[n].diags - node[n].diags
                    = node'[n].aborts - node[n].aborts]_vars

\* a node whose latch was set by the exit of its upstream had its operator
\* call abort afterwards
C12_Witness ==
  \E n \in Nodes : /\ node[n].aborts > 2
                   /\ node[n].abort = [code |-> "silent", msg |-> "silent"]

\* C13 (as stated): two calls of abort on one node with non-silent errors
\* send exactly one diagnostic to the diagnostic receiver.
C13_OneDiagnostic ==
  \A n \in Nodes : node[n].aborts = 2 => node[n].diags = 1

\* C13 (amended): every call of abort with a non-silent error sends its own
\* error diagnostic, two calls send two; the latch is set once, and a node
\* that has terminated never changes again (one terminal transition).
C13_OneDiagnosticPerAbort ==
  [][\A n \in Nodes :
       /\ node'[n].diags = node'[n].aborts
       /\ node'[n].aborts > 0 => node'[n].abort # NoError
       /\ node[n].exit # "alive" => node'[n] = node[n]]_vars

\* an operator called abort twice and its node terminated with the error
C13_Witness ==
  \E n \in Nodes : /\ node[n].aborts = 2 /\ node[n].diags = 2
                   /\ node[n].exit = "error"

\* C14: a node whose abort latch is set never terminates with exit reason
\* normal, in whatever state the latch was set.
C14_LatchedNeverNormal ==
  \A n \in Nodes : node[n].abort # NoError => node[n].exit # "normal"

\* C15: once a node's abort latch is set the node eventually terminates with
\* the latched error, whatever its buffers, demand and cursor; so once the
\* pipeline has come to rest every latched node has terminated with it.
C15_LatchedTerminates ==
  AtRest => \A n \in Nodes :
              node[n].abort # NoError
                => node[n].exit = "error" /\ node[n].exit_reason = node[n].abort


\* C16: in source | transformation | sink, when the transformation's operator
\* calls abort once while it processes its input (the source has not
\* aborted, so the call is the operator's own) all nodes together send
\* exactly one error diagnostic.
C16_OneErrorDiagnostic ==
  (/\ node[0].abort = NoError
   /\ node[1].aborts = 1 /\ node[1].hist_read # <<>>)
    => node[0].diags + node[1].diags + node[2].diags = 1

\* C17: a node that terminates with an error does so with its abort latch
\* as exit reason, and the latch carries the silent error code whatever
\* error was passed to abort.
C17_SilentExitCode ==
  \A n \in Nodes :
    /\ node[n].abort # NoError => node[n].abort.code = "silent"
    /\ node[n].exit = "error" => /\ node[n].exit_reason = node[n].abort
                                 /\ node[n].exit_reason.code = "silent"

\* the sink terminated with an error after its down handler called abort
\* with the error that wraps the exit reason of the transformation
C17_Witness ==
  /\ node[1].exit = "error"
  /\ node[2].exit = "error" /\ node[2].aborts = 1
  /\ node[2].exit_reason.code = "silent"

\* ---- a pipeline whose operators read their input to its end ------------
InitReading ==
  /\ node = [n \in Nodes |-> InitNode]
  /\ chan_up = [i \in Links |-> <<>>]
  /\ chan_down = [i \in Links |-> <<>>]
  /\ boot = NoBoot
  /\ ops = {"yield", "end", "read"}
  /\ injected = {}
  /\ call = NoCall

SpecReading == InitReading /\ [][Next]_vars

\* C18: when a node's pull fails with receiver_down the node drops its
\* upstream handle, sends no diagnostic and keeps its inbound buffer; a node
\* without upstream handle never sends another pull; no buffered element is
\* ever lost on its way to the operator; and once the pipeline has come to
\* rest such a node has emptied its inbound buffer, ended its input sequence
\* and terminated normally.
C18_ReceiverDown ==
  /\ [][\A n \in Nodes \ {0} :
          /\ (/\ FromUp(n) # <<>> /\ Head(FromUp(n)).type = "pull_down"
              /\ PullResponse(n))
               => /\ ~node'[n].previous
                  /\ node'[n].diags = node[n].diags
                  /\ node'[n].warns = node[n].warns
                  /\ node'[n].inbound_buffer = node[n].inbound_buffer
          /\ (node[n].instance /\ ~node[n].previous)
               => /\ ~node'[n].previous
                  /\ Count(chan_up'[n - 1], {"pull"})
                       <= Count(chan_up[n - 1], {"pull"})
          /\ IsPrefix(node[n].hist_read \o Flatten(node[n].inbound_buffer),
                      node'[n].hist_read \o Flatten(node'[n].inbound_buffer))
     ]_vars
  /\ [](AtRest => \A n \in Nodes \ {0} :
                    (node[n].instance /\ ~node[n].previous)
                      => /\ node[n].inbound_buffer = <<>>
                         /\ node[n].adapter = "done"
                         /\ node[n].exit = "normal")

\* a node's pull has failed with receiver_down before the down message of
\* its upstream reached it, while an element was left in its inbound buffer
C18_Witness ==
  \E n \in Nodes \ {0} :
    /\ ~node[n].previous /\ node[n].inbound_buffer # <<>>
    /\ FromUp(n) # <<>> /\ Head(FromUp(n)).type = "down"

\* C19: for a chain started by calling start on the sink with the vector of
\* its predecessors, each node receives start at most once, and once the
\* start request has succeeded exactly once; every start request in flight
\* carries the predecessors of its receiver, the source's an empty chain;
\* and a node's upstream handle is set once, to its immediate predecessor.
C19_StartChain ==
  /\ [](/\ \A n \in Nodes :
             /\ node[n].starts <= 1
             /\ boot.result = "ok" => node[n].starts = 1
             /\ node[n].handle = IF HasInput(n) /\ node[n].instance
                                 THEN n - 1 ELSE NoHandle
        /\ \A i \in Links : \A k \in DOMAIN chan_up[i] :
             chan_up[i][k].type = "start" => chan_up[i][k].elems = Chain(i))
  /\ [][\A n \in Nodes :
          node'[n].handle # node[n].handle
            => node[n].handle = NoHandle /\ node[n].starts = 0]_vars

\* the start request has succeeded and every node knows its predecessor
C19_Witness ==
  /\ boot.result = "ok"
  /\ \A n \in Nodes : node[n].starts = 1
  /\ node[2].handle = 1 /\ node[1].handle = 0 /\ node[0].handle = NoHandle

\* ---- split as a function ------------------------------------------------
\* The arguments of split are drawn from all vectors of up to MaxChunks
\* chunks of up to MaxElem bytes, null and empty chunks included, and all
\* partition points up to one past the total size; the bytes are numbered
\* in order, so that any byte lost, repeated or moved shows.
RECURSIVE Number(_, _)
Number(sizes, from) ==
  IF sizes = <<>> THEN <<>>
  ELSE <<Rows(from, Head(sizes))>>
         \o Number(Tail(sizes), from + Head(sizes))

ChunkVectors ==
  UNION {{Number(sizes, 1) : sizes \in [1 .. k -> 0 .. MaxElem]} :
           k \in 0 .. MaxChunks}

InitSplit ==
  /\ node = [n \in Nodes |-> InitNode]
  /\ chan_up = [i \in Links |-> <<>>]
  /\ chan_down = [i \in Links |-> <<>>]
  /\ boot = NoBoot
  /\ ops = {}
  /\ injected = {}
  /\ \E chunks \in ChunkVectors :
       \E partition_point \in 0 .. SumSizes(chunks) + 1 :
         \E form \in (IF Len(chunks) = 1 THEN {"chunk", "vector"}
                      ELSE {"vector"}) :
           call = [form |-> form, chunks |-> chunks,
                   partition_point |-> partition_point,
                   state |-> "args", out |-> <<>>]

\* split(const chunk_ptr&, size_t) is applied
SplitChunk ==
  /\ call.state = "args" /\ call.form = "chunk"
  /\ call' = [call EXCEPT !.state = "done",
                          !.out = split(call.chunks[1], call.partition_point)]
  /\ UNCHANGED <<node, chan_up, chan_down, boot, ops, injected>>

\* split(std::vector<chunk_ptr>, uint64_t) is applied
SplitVector ==
  /\ call.state = "args" /\ call.form = "vector"
  /\ call' = [call EXCEPT !.state = "done",
                          !.out = split_vec(call.chunks, call.partition_point)]
  /\ UNCHANGED <<node, chan_up, chan_down, boot, ops, injected>>

NextSplit == SplitChunk \/ SplitVector

SpecSplit == InitSplit /\ [][NextSplit]_vars

\* at most one chunk of x is cut, the one that holds position n; every other
\* chunk of x is in the prefix or in the remainder as it was
OnlyStraddlingSplit(x, n, prefix, remainder) ==
  \/ prefix \o remainder = x
  \/ \E k \in DOMAIN x :
       /\ Len(prefix) = k /\ Len(remainder) = Len(x) - k + 1
       /\ SubSeq(prefix, 1, k - 1) = SubSeq(x, 1, k - 1)
       /\ Tail(remainder) = SubSeq(x, k + 1, Len(x))
       /\ prefix[k] \o remainder[1] = x[k]
       /\ SumSizes(SubSeq(x, 1, k - 1)) <= n
       /\ n < SumSizes(SubSeq(x, 1, k))

\* C20: for every chunk and every vector of chunks x and every n >= 0,
\* split(x, n) returns a prefix and a remainder whose contents concatenated
\* are the content of x in order, with size(prefix) = min(n, size(x)); the
\* prefix holds no byte when n = 0 and the remainder none when n >= size(x)
\* (the null chunk in the chunk form; in the vector form a prefix of at most
\* one chunk, and an empty vector when n > size(x)); and the vector form
\* cuts only the chunk that holds position n.
C20_SplitContract ==
  call.state = "done" =>
    LET n == call.partition_point
        prefix == call.out[1]
        remainder == call.out[2]
    IN IF call.form = "chunk"
       THEN LET x == call.chunks[1]
            IN /\ prefix \o remainder = x
               /\ size(prefix) = Min(n, size(x))
               /\ n = 0 => prefix = <<>>
               /\ n >= size(x) => remainder = <<>>
       ELSE LET x == call.chunks
            IN /\ Flatten(prefix) \o Flatten(remainder) = Flatten(x)
               /\ SumSizes(prefix) = Min(n, SumSizes(x))
               /\ n = 0 => Flatten(prefix) = <<>> /\ Len(prefix) <= 1
               /\ n >= SumSizes(x) => Flatten(remainder) = <<>>
               /\ n > SumSizes(x) => remainder = <<>>
               /\ OnlyStraddlingSplit(x, n, prefix, remainder)

\* a vector of several chunks was split inside its second chunk
C20_Witness ==
  /\ call.state = "done" /\ call.form = "vector"
  /\ Len(call.chunks) > 2
  /\ Len(call.out[1]) = 2 /\ Len(call.out[2]) = Len(call.chunks) - 1
  /\ call.out[1][2] # <<>> /\ call.out[2][1] # <<>>

\* ---------------------------------------------------------------------
\* The slice operator: a generator over the batches of its input.

Max(a, b) == IF a >= b THEN a ELSE b

\* std::optional<int64_t>
NoArg == [has_value |-> FALSE, value |-> 0]
Arg(v) == [has_value |-> TRUE, value |-> v]
value_or(opt, v) == IF opt.has_value THEN opt.value ELSE v

\* what a call of subslice with begin > end or end > rows (as size_t, so a
\* negative bound too) can do: fail its precondition, or clamp the bounds
SubsliceOutOfRange == {"assert", "clamp"}

\* what rows() of a moved-from table_slice can return: the row count of the
\* empty slice, or the row count the slice had
MovedFromRows == {"zero", "kept"}

\* subslice(slice, begin, end): the rows [begin, end) of slice
subslice(slice, begin, end, oor) ==
  IF 0 <= begin /\ begin <= end /\ end <= Len(slice)
  THEN [ok |-> TRUE, slice |-> SubSeq(slice, begin + 1, end)]
  ELSE IF oor = "assert" THEN [ok |-> FALSE, slice |-> <<>>]
  ELSE [ok |-> TRUE,
        slice |-> SubSeq(slice, Max(0, begin) + 1, Min(end, Len(slice)))]

\* the generator's result: what it yielded, and whether it ran to its end
Yielded(out, ok) == [out |-> out, ok |-> ok]

RECURSIVE positive_begin_positive_end_loop(_, _, _, _, _, _)
positive_begin_positive_end_loop(input, begin, end, offset, out, oor) ==
  IF input = <<>> THEN Yielded(out, TRUE)
  ELSE LET slice == Head(input)
           clamped_begin == Max(0, begin - offset)
           clamped_end == Min(Len(slice), end - offset)
           result == subslice(slice, clamped_begin, clamped_end, oor)
       IN IF Len(slice) = 0
          THEN positive_begin_positive_end_loop(
                 Tail(input), begin, end, offset, Append(out, <<>>), oor)
          ELSE IF ~result.ok THEN Yielded(out, FALSE)
          ELSE IF offset + Len(slice) >= end
          THEN Yielded(Append(out, result.slice), TRUE)
          ELSE positive_begin_positive_end_loop(
                 Tail(input), begin, end, offset + Len(slice),
                 Append(out, result.slice), oor)

positive_begin_positive_end(input, begin, end, oor) ==
  IF end <= begin THEN Yielded(<<>>, TRUE)
  ELSE positive_begin_positive_end_loop(input, begin, end, 0, <<>>, oor)

\* the first loop of positive_begin_negative_end: buffers the input from
\* begin on
RECURSIVE positive_begin_negative_end_read(_, _, _, _, _, _)
positive_begin_negative_end_read(input, begin, offset, buffer, out, oor) ==
  IF input = <<>>
  THEN [offset |-> offset, buffer |-> buffer, out |-> out, ok |-> TRUE]
  ELSE LET slice == Head(input)
           clamped_begin == Max(0, begin - offset)
           result == subslice(slice, clamped_begin, Len(slice), oor)
       IN IF Len(slice) = 0
          THEN positive_begin_negative_end_read(
                 Tail(input), begin, offset, buffer, Append(out, <<>>), oor)
          ELSE IF ~result.ok
          THEN [offset |-> offset, buffer |-> buffer, out |-> out,
                ok |-> FALSE]
          ELSE positive_begin_negative_end_read(
                 Tail(input), begin, offset + Len(slice),
                 IF Len(result.slice) > 0 THEN Append(buffer, result.slice)
                 ELSE buffer,
                 out, oor)

\* the second loop of positive_begin_negative_end
RECURSIVE positive_begin_negative_end_write(_, _, _, _, _)
positive_begin_negative_end_write(buffer, end, offset, out, oor) ==
  IF buffer = <<>> THEN Yielded(out, TRUE)
  ELSE LET slice == Head(buffer)
           clamped_end == Min(Len(slice), end - offset)
           result == subslice(slice, 0, clamped_end, oor)
       IN IF ~result.ok THEN Yielded(out, FALSE)
          ELSE IF Len(result.slice) = 0 THEN Yielded(out, TRUE)
          ELSE positive_begin_negative_end_write(
                 Tail(buffer), end, offset + Len(slice),
                 Append(out, result.slice), oor)

positive_begin_negative_end(input, begin, end, oor) ==
  LET read == positive_begin_negative_end_read(input, begin, 0, <<>>, <<>>,
                                               oor)
      end2 == read.offset + end - begin
  IN IF ~read.ok THEN Yielded(read.out, FALSE)
     ELSE IF end2 < 0 THEN Yielded(read.out, TRUE)
     ELSE positive_begin_negative_end_write(read.buffer, end2, 0, read.out,
                                            oor)

\* the first loop of negative_begin_positive_end: buffers the input up to
\* end; it tests result.rows() after result was moved into the buffer
RECURSIVE negative_begin_positive_end_read(_, _, _, _, _, _, _)
negative_begin_positive_end_read(input, end, offset, buffer, out, oor, moved) ==
  IF input = <<>>
  THEN [offset |-> offset, buffer |-> buffer, out |-> out, ok |-> TRUE]
  ELSE LET slice == Head(input)
           clamped_end == Min(Len(slice), end - offset)
           result == subslice(slice, 0, clamped_end, oor)
           rows == IF moved = "zero" THEN 0 ELSE Len(result.slice)
       IN IF Len(slice) = 0
          THEN negative_begin_positive_end_read(
                 Tail(input), end, offset, buffer, Append(out, <<>>), oor,
                 moved)
          ELSE IF ~result.ok
          THEN [offset |-> offset + Len(slice), buffer |-> buffer,
                out |-> out, ok |-> FALSE]
          ELSE IF rows = 0
          THEN [offset |-> offset + Len(slice),
                buffer |-> Append(buffer, result.slice), out |-> out,
                ok |-> TRUE]
          ELSE negative_begin_positive_end_read(
                 Tail(input), end, offset + Len(slice),
                 Append(buffer, result.slice), out, oor, moved)

\* the second loop of negative_begin_positive_end
RECURSIVE negative_begin_positive_end_write(_, _, _, _, _)
negative_begin_positive_end_write(buffer, begin, offset, out, oor) ==
  IF buffer = <<>> THEN Yielded(out, TRUE)
  ELSE LET slice == Head(buffer)
           clamped_begin == Max(0, begin - offset)
           result == subslice(slice, clamped_begin, Len(slice), oor)
       IN IF clamped_begin >= Len(slice)
          THEN negative_begin_positive_end_write(
                 Tail(buffer), begin, offset + Len(slice), out, oor)
          ELSE IF ~result.ok THEN Yielded(out, FALSE)
          ELSE negative_begin_positive_end_write(
                 Tail(buffer), begin, offset + Len(slice),
                 IF Len(result.slice) > 0 THEN Append(out, result.slice)
                 ELSE out,
                 oor)

negative_begin_positive_end(input, begin, end, oor, moved) ==
  LET read == negative_begin_positive_end_read(input, end, 0, <<>>, <<>>,
                                               oor, moved)
      begin2 == read.offset + begin
  IN IF ~read.ok THEN Yielded(read.out, FALSE)
     ELSE IF begin2 >= read.offset THEN Yielded(read.out, TRUE)
     ELSE negative_begin_positive_end_write(read.buffer, begin2, 0,
                                            read.out, oor)

\* a variant that skips empty batches without yielding
negative_begin_negative_end_read_silent(input, offset, buffer, out) ==
  [offset |-> offset + SumSizes(input),
   buffer |-> buffer \o SelectSeq(input, LAMBDA slice : Len(slice) > 0),
   out |-> out]

\* the first loop of negative_begin_negative_end: buffers the whole input
RECURSIVE negative_begin_negative_end_read(_, _, _, _)
negative_begin_negative_end_read(input, offset, buffer, out) ==
  IF input = <<>> THEN [offset |-> offset, buffer |-> buffer, out |-> out]
  ELSE IF Len(Head(input)) = 0
  THEN negative_begin_negative_end_read(Tail(input), offset, buffer,
                                        Append(out, <<>>))
  ELSE negative_begin_negative_end_read(
         Tail(input), offset + Len(Head(input)),
         Append(buffer, Head(input)), out)

\* the second loop of negative_begin_negative_end
RECURSIVE negative_begin_negative_end_write(_, _, _, _, _, _)
negative_begin_negative_end_write(buffer, begin, end, offset, out, oor) ==
  IF buffer = <<>> THEN Yielded(out, TRUE)
  ELSE LET slice == Head(buffer)
           clamped_begin == Max(0, begin - offset)
           clamped_end == Min(Len(slice), end - offset)
           result == subslice(slice, clamped_begin, clamped_end, oor)
       IN IF clamped_begin >= Len(slice)
          THEN negative_begin_negative_end_write(
                 Tail(buffer), begin, end, offset + Len(slice), out, oor)
          ELSE IF ~result.ok THEN Yielded(out, FALSE)
          ELSE IF Len(result.slice) = 0 THEN Yielded(out, TRUE)
          ELSE negative_begin_negative_end_write(
                 Tail(buffer), begin, end, offset + Len(slice),
                 Append(out, result.slice), oor)

negative_begin_negative_end(input, begin, end, oor) ==
  LET read == negative_begin_negative_end_read(input, 0, <<>>, <<>>)
  IN IF end <= begin THEN Yielded(<<>>, TRUE)
     ELSE negative_begin_negative_end_write(
            read.buffer, read.offset + begin, read.offset + end, 0,
            read.out, oor)

\* slice_operator::operator()
slice_operator(input, begin_, end_, oor, moved) ==
  IF ~begin_.has_value /\ ~end_.has_value THEN Yielded(input, TRUE)
  ELSE IF ~begin_.has_value \/ begin_.value >= 0
  THEN IF end_.has_value /\ end_.value >= 0
       THEN positive_begin_positive_end(input, value_or(begin_, 0),
                                        end_.value, oor)
       ELSE positive_begin_negative_end(input, value_or(begin_, 0),
                                        value_or(end_, 0), oor)
  ELSE IF end_.has_value /\ end_.value >= 0
       THEN negative_begin_positive_end(input, begin_.value, end_.value,
                                        oor, moved)
       ELSE negative_begin_negative_end(input, begin_.value,
                                        value_or(end_, 0), oor)

\* the arguments of slice: the input's rows plus one in either direction
SliceArgs(input) ==
  {NoArg} \cup {Arg(v) : v \in (0 - SumSizes(input) - 1)
                                 .. (SumSizes(input) + 1)}

InitSlice ==
  /\ node = [n \in Nodes |-> InitNode]
  /\ chan_up = [i \in Links |-> <<>>]
  /\ chan_down = [i \in Links |-> <<>>]
  /\ boot = NoBoot
  /\ ops = {}
  /\ injected = {}
  /\ \E input \in ChunkVectors :
       \E begin_ \in SliceArgs(input), end_ \in SliceArgs(input) :
         call = [state |-> "args", input |-> input, begin_ |-> begin_,
                 end_ |-> end_, oor |-> "none", moved |-> "none",
                 out |-> <<>>, ok |-> TRUE]

\* the slice operator runs over its whole input
Slice ==
  /\ call.state = "args"
  /\ \E oor \in SubsliceOutOfRange, moved \in MovedFromRows :
       LET yielded == slice_operator(call.input, call.begin_, call.end_,
                                     oor, moved)
       IN call' = [call EXCEPT !.state = "done", !.oor = oor,
                               !.moved = moved, !.out = yielded.out,
                               !.ok = yielded.ok]
  /\ UNCHANGED <<node, chan_up, chan_down, boot, ops, injected>>

NextSlice == Slice

SpecSlice == InitSlice /\ [][NextSlice]_vars

\* the rows [from, to) of the whole input, counted from 0
Range(input, from, to) == SubSeq(Flatten(input), from + 1, to)

\* C21: with begin b >= 0 and end e >= 0, slice emits exactly the rows
\* [min(b, N), min(e, N)) of its N input rows in order, however the input
\* is cut into batches, and nothing when e <= b; batches that lie wholly
\* before b included.
C21_PositivePositive ==
  (/\ call.state = "done"
   /\ value_or(call.begin_, 0) >= 0
   /\ call.end_.has_value /\ call.end_.value >= 0) =>
    LET N == SumSizes(call.input)
        b == value_or(call.begin_, 0)
        e == call.end_.value
    IN /\ call.ok
       /\ Flatten(call.out) = Range(call.input, Min(b, N), Min(e, N))

\* C22: with begin b < 0 and end e >= 0, slice emits exactly the rows
\* [max(0, N + b), min(e, N)) of its input in order, N being the row count
\* of the whole input, and nothing when that range is empty; inputs of more
\* than one batch included.
C22_NegativePositive ==
  (/\ call.state = "done"
   /\ call.begin_.has_value /\ call.begin_.value < 0
   /\ call.end_.has_value /\ call.end_.value >= 0) =>
    LET N == SumSizes(call.input)
        b == call.begin_.value
        e == call.end_.value
    IN /\ call.ok
       /\ Flatten(call.out) = Range(call.input, Max(0, N + b), Min(e, N))

\* C23: with begin b >= 0 and a negative or absent end e (absent counting
\* as 0), slice emits exactly the rows [b, N + e) of its input in order and
\* nothing when N + e <= b, also when the resolved end lies inside a
\* buffered batch that further batches follow.
C23_PositiveNegative ==
  (/\ call.state = "done"
   /\ call.begin_.has_value /\ call.begin_.value >= 0
   /\ ~(call.end_.has_value /\ call.end_.value >= 0)) =>
    LET N == SumSizes(call.input)
        b == call.begin_.value
        e == value_or(call.end_, 0)
    IN /\ call.ok
       /\ Flatten(call.out) = Range(call.input, b, N + e)

\* C24: with begin b < 0 and a negative or absent end e, slice emits
\* exactly the rows [max(0, N + b), max(0, N + e)) of its input in order and
\* nothing when e <= b, also when |e| > N and when the resolved end lies
\* inside a batch that further batches follow.
C24_NegativeNegative ==
  (/\ call.state = "done"
   /\ call.begin_.has_value /\ call.begin_.value < 0
   /\ ~(call.end_.has_value /\ call.end_.value >= 0)) =>
    LET N == SumSizes(call.input)
        b == call.begin_.value
        e == value_or(call.end_, 0)
    IN /\ call.ok
       /\ Flatten(call.out)
            = Range(call.input, Max(0, N + b), Max(0, N + e))

\* ---------------------------------------------------------------------
\* The write and to operators: construction from a printer and a saver.

PrinterNames == {"json", "xsv"}
SaverNames == {"file", "stdout"}

\* a plugin name that plugins::find does not find
Unknown == "unknown"
\* no second plugin name was given; no default plugin is offered
NoName == "none"

\* the registered plugins: what each printer and saver answers
Plugins ==
  [printer_allows_joining : [PrinterNames -> BOOLEAN],
   make_default_saver : [PrinterNames -> {NoName, Unknown, "file"}],
   saver_requires_joining : [SaverNames -> BOOLEAN],
   make_default_printer : [SaverNames -> {NoName, Unknown, "json"}]]

Failed(code) == [error |-> code, ops |-> <<>>]
Made(operators) == [error |-> "none", ops |-> operators]
print_save_operator(printer, saver) ==
  [op |-> "print_save", printer |-> printer, saver |-> saver]
print_operator(printer) ==
  [op |-> "print", printer |-> printer, saver |-> NoName]
save_operator(saver) ==
  [op |-> "save", printer |-> NoName, saver |-> saver]

\* the mutant of write_make_operator: save before print
write_make_operator_save_first(plugins, printer_name, saver_argument) ==
  LET saver == IF saver_argument # NoName THEN saver_argument
               ELSE plugins.make_default_saver[printer_name]
  IN IF printer_name \notin PrinterNames THEN Failed("syntax_error")
     ELSE IF saver = NoName THEN Failed("invalid_configuration")
     ELSE IF saver \notin SaverNames
     THEN Failed(IF saver_argument # NoName THEN "syntax_error"
                 ELSE "invalid_configuration")
     ELSE IF /\ plugins.saver_requires_joining[saver]
             /\ ~plugins.printer_allows_joining[printer_name]
     THEN Failed("invalid_argument")
     ELSE IF ~plugins.saver_requires_joining[saver]
     THEN Made(<<print_save_operator(printer_name, saver)>>)
     ELSE Made(<<save_operator(saver), print_operator(printer_name)>>)

\* write_plugin::make_operator, after parsing "write FMT [to SINK]"
write_make_operator(plugins, printer_name, saver_argument) ==
  LET saver == IF saver_argument # NoName THEN saver_argument
               ELSE plugins.make_default_saver[printer_name]
  IN IF printer_name \notin PrinterNames THEN Failed("syntax_error")
     ELSE IF saver = NoName THEN Failed("invalid_configuration")
     ELSE IF saver \notin SaverNames
     THEN Failed(IF saver_argument # NoName THEN "syntax_error"
                 ELSE "invalid_configuration")
     ELSE IF /\ plugins.saver_requires_joining[saver]
             /\ ~plugins.printer_allows_joining[printer_name]
     THEN Failed("invalid_argument")
     ELSE IF ~plugins.saver_requires_joining[saver]
     THEN Made(<<print_save_operator(printer_name, saver)>>)
     ELSE Made(<<print_operator(printer_name), save_operator(saver)>>)

\* to_plugin::make_operator, after parsing "to SINK [write FMT]"
to_make_operator(plugins, saver_name, printer_argument) ==
  LET printer == IF printer_argument # NoName THEN printer_argument
                 ELSE plugins.make_default_printer[saver_name]
  IN IF saver_name \notin SaverNames THEN Failed("syntax_error")
     ELSE IF printer = NoName THEN Failed("invalid_configuration")
     ELSE IF printer \notin PrinterNames
     THEN Failed(IF printer_argument # NoName THEN "syntax_error"
                 ELSE "invalid_configuration")
     ELSE IF /\ plugins.saver_requires_joining[saver_name]
             /\ ~plugins.printer_allows_joining[printer]
     THEN Failed("invalid_argument")
     ELSE IF ~plugins.saver_requires_joining[saver_name]
     THEN Made(<<print_save_operator(printer, saver_name)>>)
     ELSE Made(<<print_operator(printer), save_operator(saver_name)>>)

InitWriteTo ==
  /\ node = [n \in Nodes |-> InitNode]
  /\ chan_up = [i \in Links |-> <<>>]
  /\ chan_down = [i \in Links |-> <<>>]
  /\ boot = NoBoot
  /\ ops = {}
  /\ injected = {}
  /\ \E plugins \in Plugins, form \in {"write", "to"} :
       \E printer \in PrinterNames \cup {Unknown, NoName},
          saver \in SaverNames \cup {Unknown, NoName} :
         /\ form = "write" => printer # NoName
         /\ form = "to" => saver # NoName
         /\ call = [state |-> "args", form |-> form, plugins |-> plugins,
                    printer |-> printer, saver |-> saver,
                    out |-> Failed("none")]

\* the pipeline text holds a write operator
Write ==
  /\ call.state = "args" /\ call.form = "write"
  /\ call' = [call EXCEPT
                !.state = "done",
                !.out = write_make_operator(call.plugins, call.printer,
                                            call.saver)]
  /\ UNCHANGED <<node, chan_up, chan_down, boot, ops, injected>>

\* the pipeline text holds a to operator
To ==
  /\ call.state = "args" /\ call.form = "to"
  /\ call' = [call EXCEPT
                !.state = "done",
                !.out = to_make_operator(call.plugins, call.saver,
                                         call.printer)]
  /\ UNCHANGED <<node, chan_up, chan_down, boot, ops, injected>>

NextWriteTo == Write \/ To

SpecWriteTo == InitWriteTo /\ [][NextWriteTo]_vars

\* the printer and the saver a call is about: the ones named, or the
\* default the named one offers
PrinterOf(c) ==
  IF c.printer # NoName THEN c.printer
  ELSE IF c.saver \in SaverNames
  THEN c.plugins.make_default_printer[c.saver] ELSE NoName
SaverOf(c) ==
  IF c.saver # NoName THEN c.saver
  ELSE IF c.printer \in PrinterNames
  THEN c.plugins.make_default_saver[c.printer] ELSE NoName

\* C25: for a printer and a saver that exist, "write FMT [to SINK]" and
\* "to SINK [write FMT]" both construct: an invalid-argument error when the
\* saver requires joining and the printer disallows it; one fused
\* print+save operator when the saver does not require joining; otherwise
\* the two operators print, save in that order.
C25_WriteToConstruction ==
  (/\ call.state = "done"
   /\ PrinterOf(call) \in PrinterNames /\ SaverOf(call) \in SaverNames) =>
    LET printer == PrinterOf(call)
        saver == SaverOf(call)
        requires == call.plugins.saver_requires_joining[saver]
        allows == call.plugins.printer_allows_joining[printer]
    IN /\ (requires /\ ~allows) =>
            call.out = [error |-> "invalid_argument", ops |-> <<>>]
       /\ ~requires =>
            /\ call.out.error = "none"
            /\ call.out.ops
                 = <<[op |-> "print_save", printer |-> printer,
                      saver |-> saver]>>
       /\ (requires /\ allows) =>
            /\ call.out.error = "none"
            /\ Len(call.out.ops) = 2
            /\ call.out.ops[1].op = "print"
            /\ call.out.ops[1].printer = printer
            /\ call.out.ops[2].op = "save"
            /\ call.out.ops[2].saver = saver

\* a write without a sink made the two operators print, save for its
\* printer and the printer's default saver
C25_Witness ==
  /\ call.state = "done" /\ call.form = "write" /\ call.saver = NoName
  /\ call.out.error = "none" /\ Len(call.out.ops) = 2
  /\ call.out.ops[2].saver = call.plugins.make_default_saver[call.printer]

\* ---------------------------------------------------------------------
\* Requests for input and deliveries of output.

\* node n sends a pull in this step: a pull more is on its way upstream, or
\* (the upstream having terminated, the pull bounces) its flag is raised
SendsPull(n) ==
  /\ node'[n] # node[n]
  /\ \/ Count(chan_up'[n - 1], {"pull"}) > Count(chan_up[n - 1], {"pull"})
     \/ node'[n].signaled_demand /\ ~node[n].signaled_demand

UnforcedAttempt(n) ==
  /\ HasOutput(n) /\ node[n].run_scheduled /\ ~node[n].it_end
  /\ node[n].current_demand.present /\ ~node[n].current_demand.ongoing
  /\ node'[n] # node[n]
  /\ \E chs \in [1 .. max_advances_per_run -> OpChoicesOf(n)] :
       Commit(n, run(Ctx(node[n]), n, chs), chan_up, chan_down, boot)

\* C27: with a pending demand that is not ongoing, a delivery attempt that
\* is not forced sends nothing and leaves the demand as it is exactly when
\* the sequence has not ended, outbound_buffer_size < demand.batch_size and
\* the deadline has not passed; in every other case it delivers
\* min(outbound_buffer_size, demand.batch_size) elements: as one push, the
\* demand being ongoing from then on, or, the minimum being 0, by completing
\* the demand at once.
C27_HoldOrDeliver ==
  [][\A n \in Nodes :
       UnforcedAttempt(n) =>
         LET demand == node[n].current_demand
             capped == Min(node[n].outbound_buffer_size, demand.batch_size)
             sent == SubSeq(chan_down'[n], Len(chan_down[n]) + 1,
                            Len(chan_down'[n]))
         IN IF /\ ~node[n].it_end
               /\ node[n].outbound_buffer_size < demand.batch_size
               /\ ~demand.expired
            THEN sent = <<>> /\ node'[n].current_demand = demand
            ELSE IF capped = 0
            THEN /\ sent = <<Msg("pull_ok", 0, <<>>)>>
                 /\ node'[n].current_demand = NoDemand
            ELSE /\ Len(sent) = 1 /\ sent[1].type = "push"
                 /\ SumSizes(sent[1].elems) = capped
                 /\ node'[n].current_demand
                      = [demand EXCEPT !.ongoing = TRUE]]_vars

\* after its deadline a demand for two elements is being served with the
\* one element the outbound buffer held
C27_Witness ==
  \E n \in Nodes :
    /\ HasOutput(n) /\ ~node[n].it_end
    /\ node[n].current_demand.ongoing /\ node[n].current_demand.expired
    /\ node[n].push_capped > 0
    /\ node[n].push_capped < node[n].current_demand.batch_size

\* node n completes its pending demand in this step without pushing anything
CompletesEmpty(n) ==
  /\ node[n].current_demand.present /\ ~node[n].current_demand.ongoing
  /\ ~node'[n].current_demand.present /\ node'[n].exit = "alive"

\* C28 as claimed: a demand is completed with zero elements only by a forced
\* delivery at the end of the sequence.
C28_EmptyOnlyForced ==
  [][\A n \in Nodes :
       (HasOutput(n) /\ CompletesEmpty(n)) => node[n].it_end]_vars

\* C28: a demand is completed with zero elements only by a forced delivery
\* at the end of the sequence or by a delivery after the demand's deadline
\* with an empty outbound buffer; a delivery that is not forced never
\* completes a demand empty before its deadline.
C28_EmptyForcedOrExpired ==
  [][\A n \in Nodes :
       (HasOutput(n) /\ CompletesEmpty(n)) =>
         \/ node[n].it_end
         \/ /\ node[n].current_demand.expired
            /\ node[n].outbound_buffer_size = 0]_vars

\* a node whose generator has not ended has just completed a demand empty:
\* it has nothing buffered and no demand, and the answer is on its way
C28_Witness ==
  \E n \in Nodes :
    /\ HasOutput(n) /\ Alive(n) /\ ~node[n].it_end
    /\ ~node[n].current_demand.present /\ node[n].outbound_buffer_size = 0
    /\ Count(chan_down[n], {"pull_ok"}) = 1

\* node n handles the pull at the head of its mailbox in this step
HandlesPull(n) ==
  /\ Alive(n) /\ chan_up[n] # <<>> /\ Head(chan_up[n]).type = "pull"
  /\ chan_up'[n] = Tail(chan_up[n])
  /\ node'[n].exit = "alive"

\* C29: reject_demand is set only in a state where the sequence has ended
\* and the outbound buffer is empty, and is never cleared; a pull that
\* arrives while it is set stores no demand, pushes no data and is not
\* answered in the handler: the answer, completed, is left to the timer of
\* batch_timeout.
C29_RejectDemand ==
  [][\A n \in Nodes :
       HasOutput(n) =>
         /\ (~node[n].reject_demand /\ node'[n].reject_demand) =>
              node[n].it_end /\ node[n].outbound_buffer_size = 0
         /\ node[n].reject_demand => node'[n].reject_demand
         /\ (node[n].reject_demand /\ HandlesPull(n)) =>
              /\ node'[n].current_demand = node[n].current_demand
              /\ chan_down'[n] = chan_down[n]
              /\ node'[n].delayed = node[n].delayed + 1
              /\ node'[n].run_scheduled = node[n].run_scheduled]_vars

\* a node that rejects demand holds a pull whose answer waits for the timer
C29_Witness ==
  \E n \in Nodes :
    /\ HasOutput(n) /\ Alive(n)
    /\ node[n].reject_demand /\ node[n].delayed > 0
    /\ ~node[n].current_demand.present

\* ---------------------------------------------------------------------
\* Termination of the upstream: a source of one row whose operators may
\* abort, so that nodes terminate with and without an error.

InitDown ==
  /\ node = [n \in Nodes |-> [InitNode EXCEPT !.src_next = NumRows]]
  /\ chan_up = [i \in Links |-> <<>>]
  /\ chan_down = [i \in Links |-> <<>>]
  /\ boot = NoBoot
  /\ ops = {"yield", "end", "read", "abort"}
  /\ injected = {}
  /\ call = NoCall

SpecDown == InitDown /\ [][Next]_vars

\* node n handles the down message at the head of its mailbox in this step
HandlesDown(n) ==
  /\ Ready(n) /\ chan_down[n - 1] # <<>>
  /\ Head(chan_down[n - 1]).type = "down"
  /\ chan_down'[n - 1] = Tail(chan_down[n - 1])
  /\ node'[n].exit = "alive"

\* what the claims say of a step in which node n handles a down message;
\* latched is what a latch that was unset holds after an abort
DownHandled(n, latched) ==
  LET reason == Head(chan_down[n - 1]).elems[1]
  IN IF node[n].previous
     THEN /\ ~node'[n].previous
          /\ ~node'[n].signaled_demand
          /\ node'[n].run_scheduled
          /\ IF reason # "normal"
             THEN /\ node'[n].abort # NoError
                  /\ node[n].abort = NoError => node'[n].abort = latched
                  /\ node'[n].aborts = Min(node[n].aborts + 1, MaxDiags)
                  /\ node'[n].diags = Min(node[n].diags + 1, MaxDiags)
             ELSE /\ node'[n].abort = node[n].abort
                  /\ node'[n].aborts = node[n].aborts
                  /\ node'[n].diags = node[n].diags
     ELSE /\ node'[n] = node[n]
          /\ chan_up'[n - 1] = chan_up[n - 1]
          /\ HasOutput(n) => chan_down'[n] = chan_down[n]

\* C30 as claimed: when its monitored upstream terminates, a node drops its
\* upstream handle, clears its in-flight request flag and schedules a run;
\* it sets its abort latch, with an error citing the predecessor, if and
\* only if the reason is not normal; a down message from any other actor
\* changes nothing.
C30_LatchCitesPredecessor ==
  [][\A n \in Nodes :
       (HasInput(n) /\ HandlesDown(n)) =>
         DownHandled(n, [code |-> "silent",
                         msg |-> "irregular exit of previous operator"])]_vars

\* C30: when its monitored upstream terminates, a node drops its upstream
\* handle, clears its in-flight request flag and schedules a run; if and
\* only if the reason is not normal it calls abort with an error citing the
\* predecessor, which sends that error as a diagnostic and leaves the abort
\* latch set, to the silent error if it was unset; a down message from any
\* other actor (the handle is already dropped) changes nothing.
C30_DownHandler ==
  [][\A n \in Nodes :
       (HasInput(n) /\ HandlesDown(n)) =>
         DownHandled(n, [code |-> "silent", msg |-> "silent"])]_vars

\* a node whose upstream terminated with an error has dropped the handle,
\* reported the error and latched the silent error
C30_Witness ==
  \E n \in Nodes :
    /\ HasInput(n) /\ Alive(n) /\ node[n - 1].exit = "error"
    /\ ~node[n].previous /\ ~node[n].signaled_demand
    /\ node[n].run_scheduled
    /\ node[n].aborts = 1 /\ node[n].diags = 1
    /\ node[n].abort = [code |-> "silent", msg |-> "silent"]

\* ---------------------------------------------------------------------
\* The input adapter, the rescheduling of run() and start.

\* the operator of node n reads its input in this step: run() resumes it
\* and it asks the input adapter for the next element
ReadsInput(n) ==
  /\ Ready(n) /\ node[n].run_scheduled /\ ~node[n].it_end
  /\ node[n].adapter # "done"
  /\ HasOutput(n) => node[n].outbound_buffer_size < max_buffered
  /\ node'[n] # node[n]
  /\ Commit(n, run(Ctx(node[n]), n,
                   [i \in 1 .. max_advances_per_run |->
                      [kind |-> "read", size |-> 0]]),
            chan_up, chan_down, boot)

\* a read that finds the inbound buffer empty while the sequence does not
\* end yields an empty token, the node being stalled
ReadYieldsEmptyToken(n) ==
  (/\ node[n].inbound_buffer_size = 0
   /\ node'[n].adapter # "done"
   /\ ReadsInput(n)) =>
    /\ node'[n].adapter = "yielded_empty"
    /\ node'[n].stalled
    /\ node'[n].cur = <<>>
    /\ node'[n].hist_read = node[n].hist_read

\* C31 as claimed: the input sequence of a non-source operator ends only in
\* a state where the upstream handle is gone, the inbound buffer is empty
\* and no pull is in flight; every element that push accepted has been
\* handed to the operator when its input ends; and a read that finds the
\* inbound buffer empty while the sequence has not ended yields an empty
\* token.
C31_NoPullInFlight ==
  /\ [](\A n \in Nodes :
          (HasInput(n) /\ node[n].adapter = "done") =>
            /\ ~node[n].previous /\ UnansweredPulls(n) = 0
            /\ node[n].inbound_buffer = <<>>
            /\ node[n].inbound_buffer_size = 0)
  /\ [][\A n \in Nodes : HasInput(n) => ReadYieldsEmptyToken(n)]_vars

\* C31: the input sequence of a non-source operator ends only in a state
\* where the upstream handle is gone, the inbound buffer is empty and the
\* flag of a pull in flight is clear (the answer to a pull sent to the
\* terminated upstream may still be on its way), and this stays so: every
\* element that push accepted has been handed to the operator when its
\* input ends; and a read that finds the inbound buffer empty while the
\* sequence has not ended yields an empty token.
C31_InputEnds ==
  /\ [](\A n \in Nodes :
          (HasInput(n) /\ node[n].adapter = "done") =>
            /\ ~node[n].previous /\ ~node[n].signaled_demand
            /\ node[n].inbound_buffer = <<>>
            /\ node[n].inbound_buffer_size = 0)
  /\ [][\A n \in Nodes :
          HasInput(n) =>
            /\ (node[n].adapter # "done" /\ node'[n].adapter = "done") =>
                 /\ ~node[n].previous /\ ~node[n].signaled_demand
                 /\ node[n].inbound_buffer = <<>>
            /\ ReadYieldsEmptyToken(n)]_vars

\* the input of a node has ended after the node read all rows of the source
C31_Witness ==
  \E n \in Nodes :
    /\ HasInput(n) /\ Alive(n) /\ node[n].adapter = "done"
    /\ Len(node[n].hist_read) = NumRows
    /\ ~node[n].previous /\ node[n].inbound_buffer = <<>>

\* node n takes a turn of run() that reaches the end of run(): its generator
\* was not at its end when the turn began, and the node is alive after it
RunsTurn(n) ==
  /\ Ready(n) /\ node[n].run_scheduled /\ ~node[n].it_end
  /\ node'[n] # node[n] /\ node'[n].exit = "alive"
  /\ \E chs \in [1 .. max_advances_per_run -> OpChoicesOf(n)] :
       Commit(n, run(Ctx(node[n]), n, chs), chan_up, chan_down, boot)

\* the work the claim names, in the state the turn ends in
WorkRemains(n) ==
  \/ node'[n].outbound_buffer_size < max_buffered /\ ~node'[n].it_end
  \/ node'[n].current_demand.present
  \/ HasInput(n) /\ ~node'[n].previous

StartChains(n) == {<<>>, Chain(n), <<0>>}

InjectStartOf(n, previous) ==
  /\ Ready(n) /\ Cardinality(injected) < 2
  /\ IsSource(n) \/ node[n].instance \/ previous = <<>>
  /\ \E ch \in OpChoicesOf(n) :
       LET c == start(Ctx(node[n]), n, ch, previous)
           answer == IF c.start_reply = "ok" THEN "start_ok" ELSE c.error.code
       IN Commit(n, [c EXCEPT !.start_reply = "none",
                              !.s.foreign_reply = answer],
                 chan_up, chan_down, boot)
  /\ injected' = injected \cup {IF "start" \in injected THEN "second start"
                                  ELSE "start"}

InjectStart(n) == \E previous \in StartChains(n) : InjectStartOf(n, previous)

NextStart ==
  \/ Next
  \/ \E n \in Nodes : InjectStart(n)

\* a pipeline whose source has one row, with the foreign actor
InitStart ==
  /\ node = [n \in Nodes |-> [InitNode EXCEPT !.src_next = NumRows]]
  /\ chan_up = [i \in Links |-> <<>>]
  /\ chan_down = [i \in Links |-> <<>>]
  /\ boot = NoBoot
  /\ ops = {"yield", "end", "read", "abort"}
  /\ injected = {}
  /\ call = NoCall

SpecStart == InitStart /\ [][NextStart]_vars

\* start must fail with a logic error: the node has an instance, a source
\* is given predecessors, or another node is given none
StartMisused(n, previous) ==
  \/ node[n].instance
  \/ IsSource(n) /\ previous # <<>>
  \/ ~IsSource(n) /\ previous = <<>>

\* the start request failed with a logic error and changed nothing but the
\* count of start requests (and the answer the foreign actor has got)
StartRefused(n) ==
  /\ \E k \in {node[n].starts, node[n].starts + 1} :
       \E answer \in {node[n].foreign_reply, "logic_error"} :
         node'[n] = [node[n] EXCEPT !.starts = k, !.foreign_reply = answer]
  /\ \A m \in Nodes \ {n} : node'[m] = node[m]
  /\ \A i \in Links : Len(chan_up'[i]) <= Len(chan_up[i])
  /\ chan_down' = chan_down

\* the pipeline's own start request reaches node n
HandlesStart(n) ==
  /\ HasOutput(n) /\ Ready(n)
  /\ FromDown(n) # <<>> /\ Head(FromDown(n)).type = "start"
  /\ chan_up'[n] = Tail(chan_up[n])

\* C33: start fails with a logic error and instantiates nothing when a
\* source is given a non-empty chain, when a transformation or a sink is
\* given an empty chain, or when the node has been started before; a node's
\* operator is instantiated at most once: a node that has an instance keeps
\* it, and no start request changes it.
C33_StartLogicError ==
  [][\A n \in Nodes :
       /\ node[n].instance => node'[n].instance
       /\ \A previous \in StartChains(n) :
            (InjectStartOf(n, previous) /\ StartMisused(n, previous))
              => node'[n].foreign_reply = "logic_error" /\ StartRefused(n)
       /\ (HandlesStart(n) /\ StartMisused(n, Head(FromDown(n)).elems))
            => /\ boot'.reply = "err" /\ boot'.error.code = "logic_error"
               /\ StartRefused(n)]_vars

\* a source that a foreign actor had started has refused the start request
\* of the pipeline, and a foreign start was refused as well
C33_Witness ==
  /\ node[0].instance /\ node[0].starts = 2
  /\ boot.result = "err" /\ boot.error.code = "logic_error"
  /\ \E n \in Nodes : node[n].foreign_reply = "logic_error"

\* the start request of the executor has been answered with success after
\* every node of the chain has instantiated its operator, and no start
\* request is left in flight
UpstreamStarted ==
  /\ boot.result = "ok"
  /\ \A m \in Nodes : node[m].instance /\ node[m].starts >= 1
  /\ \A i \in Links : \A k \in DOMAIN chan_up[i] : chan_up[i][k].type # "start"

\* the sink gets the answer to the start request it sent upstream
HandlesStartReply(n) ==
  /\ IsSink(n) /\ Ready(n) /\ boot.reply \in {"ok", "err"}
  /\ boot'.reply = "none"

\* C34: a sink's run is scheduled, and its operator advanced by run(), only
\* after the start request it sent upstream was answered with success by the
\* whole chain; when that request fails, the sink answers its own start
\* request with the same error, schedules no run and does not advance.
C34_SinkRunsAfterStart ==
  /\ [](\A n \in Nodes :
          IsSink(n) =>
            /\ (node[n].run_scheduled \/ node[n].advances > 0)
                 => UpstreamStarted
            /\ boot.result = "err"
                 => ~node[n].run_scheduled /\ node[n].advances = 0)
  /\ [][\A n \in Nodes :
          HandlesStartReply(n)
            => /\ boot'.result = boot.reply
               /\ boot'.error = boot.error
               /\ node'[n].run_scheduled <=> boot.reply = "ok"
               /\ boot.reply = "err" => node'[n] = node[n]]_vars

\* the sink has forwarded the logic error of a source that was started
\* before; in another run it would have advanced its operator
C34_Witness ==
  /\ boot.result = "err" /\ boot.error.code = "logic_error"
  /\ node[2].instance /\ node[2].starts = 1 /\ node[2].advances = 0
  /\ node[1].instance /\ node[0].starts = 2

\* start() of node n has instantiated the operator, whose prologue has set
\* the abort latch
AbortsInPrologue(n) ==
  /\ ~node[n].instance /\ node'[n].instance
  /\ node[n].abort = NoError /\ node'[n].abort # NoError

\* C35: if the operator sets the abort latch while start() instantiates it,
\* the start request is answered with the latched error, and no start
\* request is sent to the upstream node.
C35_PrologueAbort ==
  [][\A n \in Nodes :
       AbortsInPrologue(n)
         => /\ IF injected' # injected
                 THEN node'[n].foreign_reply = node'[n].abort.code
               ELSE /\ boot'.error = node'[n].abort
                    /\ IF IsSink(n) THEN boot'.result = "err"
                       ELSE boot'.reply = "err"
            /\ chan_up' = [i \in Links |->
                             IF i = n /\ injected' = injected
                             THEN Tail(chan_up[i]) ELSE chan_up[i]]
            /\ ~node'[n].run_scheduled]_vars

\* the transformation has aborted in its prologue: the executor's start
\* request has failed with its error and the source was never started
C35_Witness ==
  /\ node[1].instance /\ node[1].abort # NoError /\ node[1].advances = 0
  /\ boot.result = "err" /\ boot.error = node[1].abort
  /\ ~node[0].instance /\ node[0].starts = 0

\* ---- slice: empty input batches -------------------------------------------
\* what the operator has yielded, and what its reading loop holds, when it
\* has consumed the batches of input and is resumed no further: the loop of
\* positive_begin_positive_end, the first loop of the other three variants
slice_reading(input, begin_, end_, oor, moved) ==
  LET begin == value_or(begin_, 0)
      end == value_or(end_, 0)
  IN IF ~begin_.has_value \/ begin_.value >= 0
     THEN IF end_.has_value /\ end_.value >= 0
          THEN positive_begin_positive_end(input, begin, end, oor)
          ELSE positive_begin_negative_end_read(input, begin, 0, <<>>, <<>>,
                                                oor)
     ELSE IF end_.has_value /\ end_.value >= 0
          THEN negative_begin_positive_end_read(input, end, 0, <<>>, <<>>,
                                                oor, moved)
          ELSE IF end <= begin THEN Yielded(<<>>, TRUE)
          ELSE negative_begin_negative_end_read(input, 0, <<>>, <<>>)

\* a batch of one row that is not a row of the input
Probe == <<0>>

\* after the batches of input the operator is still reading: a further
\* batch with rows would be consumed
StillReading(input, begin_, end_, oor, moved) ==
  slice_reading(Append(input, Probe), begin_, end_, oor, moved)
    # slice_reading(input, begin_, end_, oor, moved)

Prefix(input, k) == SubSeq(input, 1, k)

\* C36: in each of the four variants of slice, an empty input batch that
\* arrives while the operator is still reading makes it yield one empty
\* batch and nothing else: its offset and its buffer are as before.
C36_EmptyBatchYieldsEmpty ==
  (call.state = "done" /\ (call.begin_.has_value \/ call.end_.has_value))
    => \A k \in DOMAIN call.input :
         LET before == slice_reading(Prefix(call.input, k - 1), call.begin_,
                                     call.end_, call.oor, call.moved)
             after == slice_reading(Prefix(call.input, k), call.begin_,
                                    call.end_, call.oor, call.moved)
         IN (/\ call.input[k] = <<>>
             /\ StillReading(Prefix(call.input, k - 1), call.begin_,
                             call.end_, call.oor, call.moved))
              => after = [before EXCEPT !.out = Append(@, <<>>)]

\* slice -2:0 over rows, an empty batch and rows again: the operator was
\* reading when the empty batch arrived, and its output has the empty token
C36_Witness ==
  /\ call.state = "done" /\ call.ok
  /\ call.begin_.has_value /\ call.begin_.value < 0 /\ ~call.end_.has_value
  /\ Len(call.input) = 3 /\ call.input[2] = <<>>
  /\ call.input[1] # <<>> /\ call.input[3] # <<>>
  /\ StillReading(Prefix(call.input, 1), call.begin_, call.end_, call.oor,
                  call.moved)
  /\ \E i \in DOMAIN call.out : call.out[i] = <<>>

\* ---- the protocol between the nodes of a pipeline -------------------------
\* the push requests on their way to node n
PushesTo(n) == SelectSeq(FromUp(n), LAMBDA m : m.type = "push")

\* the pull requests on their way to node n
PullsTo(n) == SelectSeq(FromDown(n), LAMBDA m : m.type = "pull")

\* C37: in a pipeline of execution nodes no push and no pull is rejected:
\* every push on its way to a live node has elements and fits, with the
\* pushes before it, into the free room of the node's inbound buffer, and
\* no pull is on its way to a live node that holds a pending demand or has
\* another pull on its way.
C37_NoProtocolRejection ==
  \A n \in Nodes :
    Alive(n) =>
      /\ HasInput(n) =>
           /\ \A k \in DOMAIN PushesTo(n) : SumSizes(PushesTo(n)[k].elems) > 0
           /\ node[n].inbound_buffer_size
                + SumSizes([k \in DOMAIN PushesTo(n) |->
                              Flatten(PushesTo(n)[k].elems)])
                <= max_buffered
      /\ HasOutput(n) =>
           Len(PullsTo(n)) + (IF node[n].current_demand.present THEN 1 ELSE 0)
             <= 1

\* a push that fills the inbound buffer of a node that still holds rows is
\* on its way, and a pull is on its way to the node that sent the push
C37_Witness ==
  \E n \in Nodes :
    /\ HasInput(n) /\ Alive(n) /\ Alive(n - 1)
    /\ node[n].inbound_buffer_size > 0 /\ Len(PushesTo(n)) = 1
    /\ node[n].inbound_buffer_size + SumSizes(PushesTo(n)[1].elems)
         = max_buffered

\* ---- the outbound buffer and the push in flight --------------------------
\* a pipeline whose source has two rows left and whose operators may abort
InitPush ==
  /\ node = [n \in Nodes |-> [InitNode EXCEPT !.src_next = NumRows - 1]]
  /\ chan_up = [i \in Links |-> <<>>]
  /\ chan_down = [i \in Links |-> <<>>]
  /\ boot = NoBoot
  /\ ops = {"yield", "end", "read", "abort"}
  /\ injected = {}
  /\ call = NoCall

SpecPush == InitPush /\ [][Next]_vars

PushAnswers == {"push_ok", "push_err", "push_full"}

\* the pushes of node n that it has no answer to yet
PushesInFlight(n) ==
  Count(chan_down[n], {"push"}) + Count(chan_up[n], PushAnswers)
  + (IF node[n].foreign_push THEN 1 ELSE 0)

\* node n takes the answer of type t to its push
TakesPushAnswer(n, t) ==
  /\ FromDown(n) # <<>> /\ Head(FromDown(n)).type = t
  /\ chan_up'[n] = Tail(chan_up[n])

\* C38: a live node has at most one push in flight, which carries the first
\* elements of its outbound buffer; the buffer loses elements only when the
\* push is acknowledged, and then exactly the elements pushed, so that what
\* was appended meanwhile is kept; a failed push leaves the buffer as it is,
\* and the demand is cleared and answered with an error.
C38_OutboundLeavesOnAck ==
  /\ [](\A n \in Nodes :
          (HasOutput(n) /\ Alive(n)) =>
            /\ PushesInFlight(n) <= 1
            /\ PushesInFlight(n) = 1 => node[n].current_demand.ongoing
            /\ \A k \in DOMAIN chan_down[n] :
                 chan_down[n][k].type = "push"
                   => /\ node[n].push_capped > 0
                      /\ Flatten(chan_down[n][k].elems)
                           = SubSeq(Flatten(node[n].outbound_buffer), 1,
                                    node[n].push_capped))
  /\ [][\A n \in Nodes :
          (HasOutput(n) /\ Alive(n) /\ node'[n].exit = "alive") =>
            LET before == Flatten(node[n].outbound_buffer)
                after == Flatten(node'[n].outbound_buffer)
            IN /\ IsPrefix(before, after)
                  \/ /\ TakesPushAnswer(n, "push_ok") \/ node[n].foreign_push
                     /\ node[n].push_capped > 0
                     /\ after = SubSeq(before, node[n].push_capped + 1,
                                       Len(before))
               /\ (TakesPushAnswer(n, "push_err")
                    \/ TakesPushAnswer(n, "push_full"))
                    => /\ node'[n].outbound_buffer = node[n].outbound_buffer
                       /\ node'[n].outbound_buffer_size
                            = node[n].outbound_buffer_size
                       /\ node[n].current_demand.present
                       /\ node'[n].current_demand = NoDemand]_vars

\* the node has appended rows behind the rows it pushed, and the push has
\* failed: its answer is on the way and all the rows are still in the buffer
C38_Witness ==
  \E n \in Nodes :
    /\ HasOutput(n) /\ Alive(n) /\ Count(chan_up[n], {"push_err"}) = 1
    /\ node[n].push_capped > 0
    /\ node[n].outbound_buffer_size > node[n].push_capped

\* ---- the stalled sink ------------------------------------------------------
\* C39: a sink that has finished a run turn stalled, so that no further turn
\* is scheduled, has a pull in flight: VAST_ASSERT(this->signaled_demand) at
\* the end of run() holds for every operator, also for one that yields
\* empty tokens without reading its input.
C39_StalledSinkHasPull ==
  [][\A n \in Nodes :
       (/\ IsSink(n) /\ Ready(n) /\ node[n].run_scheduled
        /\ ~node'[n].run_scheduled /\ node'[n].exit = "alive"
        /\ node'[n].stalled)
         => node'[n].signaled_demand]_vars

\* ---- elements of size zero ------------------------------------------------
NoEmptyElement(buffer) == \A k \in DOMAIN buffer : size(buffer[k]) > 0

\* C40: in a pipeline of execution nodes no inbound buffer, no outbound
\* buffer and no push in flight holds an element of size zero, and the
\* counts are the sums of the sizes; so an inbound count of zero means an
\* empty inbound buffer, and the input adapter never pops an element of
\* size zero.  This covers the elements an outbound buffer is split into
\* at the boundary of a demand.
C40_NoEmptyElement ==
  /\ \A n \in Nodes :
       /\ NoEmptyElement(node[n].inbound_buffer)
       /\ NoEmptyElement(node[n].outbound_buffer)
       /\ node[n].inbound_buffer_size = SumSizes(node[n].inbound_buffer)
       /\ node[n].inbound_buffer_size = 0 => node[n].inbound_buffer = <<>>
  /\ \A i \in Links : \A k \in DOMAIN chan_down[i] :
       chan_down[i][k].type = "push" => NoEmptyElement(chan_down[i][k].elems)

\* a demand has cut the first element of an outbound buffer in two: its
\* first part is on its way
C40_Witness ==
  \E n \in Nodes :
    /\ HasOutput(n) /\ Alive(n) /\ Count(chan_down[n], {"push"}) = 1
    /\ node[n].push_capped > 0
    /\ node[n].push_capped < size(Head(node[n].outbound_buffer))

====
